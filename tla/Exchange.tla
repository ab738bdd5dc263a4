------------------------------ MODULE Exchange ------------------------------
(***************************************************************************)
(* Service.Exchange (exchange.go): one transaction reserves and settles    *)
(* the source amount, posts the sell and the buy leg, reads both back and  *)
(* checks what they moved.  It composes the reserver, the batch executor   *)
(* and the template renderer under locks taken in one canonical order.     *)
(*                                                                         *)
(* One holder, two currencies.  A call is an exchange, a deposit (a single *)
(* journal, which locks the same pairs in the post path's own order) or a  *)
(* hold (a plain Reserve).  Retries are calls with the same key.  The      *)
(* writes of a transaction are kept with the call until it commits; locks  *)
(* are advisory and last as long as the transaction.                       *)
(***************************************************************************)
EXTENDS Integers, Sequences, FiniteSets, FiniteSetsExt, SequencesExt

CONSTANTS
    Calls,        \* the calls
    Teams,        \* the sets of calls made together
    In,           \* call -> [op, key, from, to, qty, rate, sell, buy, fund]
    Lines,        \* template -> its lines [who, class, side]
    Price,        \* rate version -> units of target per unit of source
    Opening       \* the holder's available balance in each currency

VARIABLES
    rsv,          \* key -> the reservation made under it, NoReservation for none
    jrn,          \* journal key -> the payload posted under it, NoJournal for none
    held,         \* lock -> the call whose transaction holds it, or Nobody
    call          \* call -> [pc, locks still to take, own reservation, own journals]

vars == <<rsv, jrn, held, call>>

Currencies == {"src", "tgt"}
Classes == {"available", "pending", "settlement"}
Nobody == "nobody"
NoJournal == [entries |-> <<>>, quote |-> "", fund |-> ""]
NoReservation == [qty |-> 0, cur |-> "", state |-> "none"]
Keys == {In[c].key : c \in Calls}
JournalKeys == {<<k, leg>> : k \in Keys, leg \in {"pay", "issue"}}
Pairs == {<<who, cur>> : who \in {"system", "user"}, cur \in Currencies}
IdemLocks == {<<k, s>> : k \in Keys, s \in {"issue", "pay", "reserve", "settle"}}

Init ==
    /\ rsv = [k \in Keys |-> NoReservation]
    /\ jrn = [k \in JournalKeys |-> NoJournal]
    /\ held = [l \in IdemLocks \union Pairs |-> Nobody]
    /\ \E team \in Teams :
         call = [c \in Calls |-> [pc |-> IF c \in team THEN "start" ELSE "idle", locks |-> <<>>,
                                  rsv |-> NoReservation, jrn |-> [l \in {"pay", "issue"} |-> NoJournal]]]

-----------------------------------------------------------------------------
(* Rendering and balances *)

\* EntryTemplate.Render: one entry per line, all in the call's currency.
Render(template, cur, amount) ==
    [i \in DOMAIN Lines[template] |->
        [who |-> Lines[template][i].who, class |-> Lines[template][i].class,
         side |-> Lines[template][i].side, cur |-> cur, amount |-> amount]]

\* The holder's wallet and pending are debit-normal, settlement credit-normal.
NormalSide(class) == IF class = "settlement" THEN "credit" ELSE "debit"

\* core.SignedAmount
SignedAmount(e) == IF e.side = NormalSide(e.class) THEN e.amount ELSE -e.amount

\* The holder's change in one class of one currency over some entries.
NetOf(entries, class, cur) ==
    FoldLeft(LAMBDA sum, e : IF e.who = "user" /\ e.class = class /\ e.cur = cur
                             THEN sum + SignedAmount(e) ELSE sum, 0, entries)

NetOfAll(class, cur) ==
    MapThenSumSet(LAMBDA k : NetOf(jrn[k].entries, class, cur), JournalKeys)

Balance(cur) == Opening[cur] + NetOfAll("available", cur)

\* The active holds: a plain reservation's; an exchange settles its own in the
\* transaction that made it.
Holds(cur) ==
    MapThenSumSet(LAMBDA k : rsv[k].qty, {k \in Keys : rsv[k].state = "active" /\ rsv[k].cur = cur})

\* FixedRate.Convert at the precision of one unit.
TargetAmount(c) == In[c].qty * Price[In[c].rate]

\* The two requests: both carry the quote and the funding reference.
Request(c, leg) ==
    [entries |-> IF leg = "pay" THEN Render(In[c].sell, In[c].from, In[c].qty)
                                ELSE Render(In[c].buy, In[c].to, TargetAmount(c)),
     quote |-> In[c].rate, fund |-> In[c].fund]

LegsOf(c) == IF In[c].op = "exchange" THEN <<"pay", "issue">>
             ELSE IF In[c].op = "deposit" THEN <<"issue">> ELSE <<>>

-----------------------------------------------------------------------------
(* Locks *)

\* Keys sort before pairs are taken; a system holder's id is negative, so its
\* pairs sort first.
PairOrder == <<<<"system", "src">>, <<"system", "tgt">>, <<"user", "src">>, <<"user", "tgt">>>>
PairsOf(c) ==
    LET touched == {<<e.who, e.cur>> : e \in UNION {ToSet(Request(c, leg).entries) : leg \in ToSet(LegsOf(c))}}
    IN  SelectSeq(PairOrder, LAMBDA p : p \in touched)

KeyOrder(c, suffixes) == [i \in DOMAIN suffixes |-> <<In[c].key, suffixes[i]>>]

\* LockForTemplates: every key the transaction will use, then every pair.
LockForTemplates(c) == KeyOrder(c, <<"issue", "pay", "reserve", "settle">>) \o PairsOf(c)

\* The locks of the post path and of a plain Reserve.
LocksOf(c) ==
    CASE In[c].op = "exchange" -> LockForTemplates(c)
      [] In[c].op = "deposit" -> KeyOrder(c, <<"issue">>) \o PairsOf(c)
      [] In[c].op = "hold" -> KeyOrder(c, <<"reserve">>) \o <<<<"user", In[c].from>>>>

At(c, l) == call[c].pc = l /\ call[c].locks = <<>>
Goto(c, l) == call' = [call EXCEPT ![c].pc = l]
Free(c) == held' = [l \in DOMAIN held |-> IF held[l] = c THEN Nobody ELSE held[l]]

\* A transaction that ends without committing leaves nothing.
Fail(c) == /\ Goto(c, "failed") /\ Free(c)
           /\ UNCHANGED <<rsv, jrn>>

-----------------------------------------------------------------------------
(* The transaction *)

\* Exchange refuses a quote that rounds to zero before it opens one.
Begin(c) ==
    /\ call[c].pc = "start"
    /\ IF In[c].op = "exchange" /\ TargetAmount(c) <= 0 THEN Goto(c, "failed")
       ELSE Goto(c, "funding")
    /\ UNCHANGED <<rsv, jrn, held>>

\* checkFundingJournal: the reference must be a committed journal with an
\* entry of this holder in the source currency.
CheckFundingJournal(c) ==
    /\ At(c, "funding")
    /\ LET f == In[c].fund IN
         IF f # "" /\ ~\E e \in ToSet(jrn[<<f, "issue">>].entries) : e.who = "user" /\ e.cur = In[c].from
         THEN Fail(c)
         ELSE /\ call' = [call EXCEPT ![c].pc = "reserve", ![c].locks = LocksOf(c)]
              /\ UNCHANGED <<rsv, jrn, held>>

AcquireLock(c) ==
    /\ call[c].locks # <<>>
    /\ LET l == Head(call[c].locks) IN
         /\ held[l] \in {Nobody, c}
         /\ held' = [held EXCEPT ![l] = c]
    /\ call' = [call EXCEPT ![c].locks = Tail(@)]
    /\ UNCHANGED <<rsv, jrn>>

\* Reserve: a known key answers the reservation it made, a new one must be
\* covered by what is available net of the active holds.
Reserve(c) ==
    /\ At(c, "reserve")
    /\ LET old == rsv[In[c].key] IN
         CASE In[c].op = "deposit" -> Goto(c, "pay") /\ UNCHANGED <<rsv, jrn, held>>
           [] In[c].op # "deposit" /\ old # NoReservation
              /\ <<old.qty, old.cur>> # <<In[c].qty, In[c].from>> -> Fail(c)
           [] In[c].op # "deposit" /\ old = NoReservation
              /\ Balance(In[c].from) - Holds(In[c].from) < In[c].qty -> Fail(c)
           [] OTHER ->
              /\ call' = [call EXCEPT ![c].pc = "settle",
                            ![c].rsv = IF old = NoReservation
                                       THEN [qty |-> In[c].qty, cur |-> In[c].from, state |-> "active"]
                                       ELSE old]
              /\ UNCHANGED <<rsv, jrn, held>>

\* Settle in full; a settled reservation replays.  A plain hold stays active.
Settle(c) ==
    /\ At(c, "settle")
    /\ call' = [call EXCEPT ![c].pc = IF In[c].op = "hold" THEN "commit" ELSE "pay",
                            ![c].rsv.state = IF In[c].op = "hold" THEN @ ELSE "settled"]
    /\ UNCHANGED <<rsv, jrn, held>>

\* ensureJournalMatchesInput: entries and metadata, the quote included.
SamePayload(old, new) == old = new

\* One leg of the batch: a known key replays to its journal or conflicts.
PostLeg(c, leg, next) ==
    /\ At(c, leg)
    /\ LET old == jrn[<<In[c].key, leg>>] IN
         CASE leg \notin ToSet(LegsOf(c)) -> Goto(c, next) /\ UNCHANGED <<rsv, jrn, held>>
           [] leg \in ToSet(LegsOf(c)) /\ old # NoJournal /\ ~SamePayload(old, Request(c, leg)) -> Fail(c)
           [] OTHER ->
              /\ call' = [call EXCEPT ![c].pc = next,
                            ![c].jrn[leg] = IF old = NoJournal THEN Request(c, leg) ELSE old]
              /\ UNCHANGED <<rsv, jrn, held>>

\* Fault: what the leg moves in all the holder's classes together is compared.
HolderLegNetAnyClass(entries, cur, want) ==
    /\ \A e \in ToSet(entries) : e.cur = cur
    /\ MapThenSumSet(LAMBDA class : NetOf(entries, class, cur), Classes) = want

\* holderLegNet: the leg stays in its currency, moves the holder's available
\* balance by exactly want and leaves every other class of theirs as it was.
HolderLegNet(entries, cur, want) ==
    /\ \A e \in ToSet(entries) : e.cur = cur
    /\ NetOf(entries, "available", cur) = want
    /\ \A class \in Classes \ {"available"} : NetOf(entries, class, cur) = 0

CheckLegs(c) ==
    /\ At(c, "check")
    /\ IF \/ In[c].op # "exchange"
          \/ /\ HolderLegNet(call[c].jrn["pay"].entries, In[c].from, -In[c].qty)
             /\ HolderLegNet(call[c].jrn["issue"].entries, In[c].to, TargetAmount(c))
       THEN Goto(c, "commit") /\ UNCHANGED <<rsv, jrn, held>>
       ELSE Fail(c)

\* RunInTx commits when the body returned no error.
Commit(c) ==
    /\ At(c, "commit")
    /\ rsv' = [k \in Keys |-> IF k = In[c].key /\ In[c].op # "deposit" THEN call[c].rsv ELSE rsv[k]]
    /\ jrn' = [k \in JournalKeys |-> IF k[1] = In[c].key /\ k[2] \in ToSet(LegsOf(c))
                                     THEN call[c].jrn[k[2]] ELSE jrn[k]]
    /\ Goto(c, "ok") /\ Free(c)

\* The connection is lost, or the caller's context ends, inside the transaction.
Die(c) ==
    /\ call[c].pc \notin {"idle", "start", "ok", "failed", "dead"}
    /\ call' = [call EXCEPT ![c].pc = "dead", ![c].locks = <<>>]
    /\ Free(c)
    /\ UNCHANGED <<rsv, jrn>>

Step(c) ==
    \/ Begin(c) \/ CheckFundingJournal(c) \/ AcquireLock(c) \/ Reserve(c) \/ Settle(c)
    \/ PostLeg(c, "pay", "issue") \/ PostLeg(c, "issue", "check") \/ CheckLegs(c)
    \/ Commit(c)

Next == \E c \in Calls : Step(c) \/ Die(c)
Spec == Init /\ [][Next]_vars

-----------------------------------------------------------------------------
(* Properties *)

\* Whatever calls, retries and failures were interleaved, the four writes of
\* an exchange are there together or not at all: its source reservation is
\* settled exactly when both legs are posted, and both carry one quote.
AllOrNothing ==
    \A k \in {In[c].key : c \in {d \in Calls : In[d].op = "exchange"}} :
        /\ (rsv[k].state = "settled") = (jrn[<<k, "pay">>] # NoJournal)
        /\ (rsv[k].state = "settled") = (jrn[<<k, "issue">>] # NoJournal)
        /\ jrn[<<k, "pay">>].quote = jrn[<<k, "issue">>].quote

\* A call that answered success is explained by the books: the quote stored
\* under its key is the quote it was called with, even when another version
\* of the rate gives the same amount ("the same key with a different quote is
\* core.ErrConflict").
AnswerIsOnTheBooks ==
    \A c \in Calls : In[c].op = "exchange" /\ call[c].pc = "ok" =>
        jrn[<<In[c].key, "issue">>] = Request(c, "issue")

\* The holder's available balance never falls below the active holds: two
\* exchanges, or an exchange and a hold, cannot both spend the same funds.
HoldsCovered == \A cur \in Currencies : Balance(cur) >= Holds(cur)

\* The holder's balances move only by what the committed exchanges quoted and
\* the deposits brought, whichever templates the calls named: nothing reaches
\* the pending balance, and each key counts once.
MovesAsQuoted ==
    LET Done(k) == {c \in Calls : In[c].key = k /\ In[c].op # "hold" /\ call[c].pc = "ok"}
        Moves(c, cur) == (IF In[c].to = cur THEN TargetAmount(c) ELSE 0)
                       - (IF In[c].op = "exchange" /\ In[c].from = cur THEN In[c].qty ELSE 0)
        Moved(k, cur) == Moves(CHOOSE c \in Done(k) : TRUE, cur)
    IN  \A cur \in Currencies :
            /\ Balance(cur) = Opening[cur] + MapThenSumSet(LAMBDA k : Moved(k, cur), {k \in Keys : Done(k) # {}})
            /\ NetOfAll("pending", cur) = 0

\* What exchanges leave on the books: whole, as answered and quoted, with funds that were
\* there and were nobody else's.
BooksSound == AllOrNothing /\ AnswerIsOnTheBooks /\ HoldsCovered /\ MovesAsQuoted
=============================================================================
