-------------------------------- MODULE Booking --------------------------------
(***************************************************************************)
(* Bookings (postgres/booking_store.go), their events, and the link a      *)
(* journal makes to both (postgres/ledger_store.go).  Three kinds of       *)
(* transaction meet on a booking's row: Transition, a PostJournal that     *)
(* names an event, and the recipe of RunInTx that does both.  The expiry   *)
(* sweep is one more caller of Transition.                                 *)
(*                                                                         *)
(* A booking is named by its creation key.  channel_ref and amount are     *)
(* compared and kept in the same way, so one value `amt' stands for both;  *)
(* 0 is "not given".  Metadata and dimensions are left out.                *)
(***************************************************************************)
EXTENDS Integers, FiniteSets, FiniteSetsExt

CONSTANTS
    Clients,     \* callers, one transaction each
    Sweepers,    \* callers that run ExpireStaleBookings
    NoClient,    \* holder of a free lock
    Bookings,    \* creation keys
    TKeys,       \* idempotency keys of transitions
    JKeys,       \* idempotency keys of journals
    Amounts,     \* amounts a caller may give
    Initial,     \* Lifecycle.Initial
    Edges,       \* Lifecycle.Transitions, as a set of pairs
    Ops,         \* operations callers use
    MaxCalls,    \* bound: calls begun
    MaxFaults    \* bound: transactions that die

Statuses == {Initial} \cup {e[1] : e \in Edges} \cup {e[2] : e \in Edges}

BookingAssumption ==
    /\ NoClient \notin Clients /\ Sweepers \subseteq Clients
    /\ 0 \notin Amounts /\ Amounts \subseteq Nat
    /\ "none" \notin JKeys \cup Statuses
    /\ Ops \subseteq {"create", "transition", "confirm", "post", "plain"}

VARIABLES
    booking,     \* [Bookings -> row of bookings]
    due,         \* bookings whose expires_at has passed
    events,      \* committed rows of events
    receipts,    \* committed rows of booking_transition_receipts
    journals,    \* committed journals that name an event
    seq,         \* last id of events handed out
    list,        \* [Sweepers -> bookings of the sweep still to expire]
    rowLock,     \* [Bookings -> holder of the row lock]
    idemLock,    \* [JKeys -> holder of the journal idempotency lock]
    balLock,     \* [Bookings -> holder of the balance lock of its pair]
    pc, call,    \* [Clients -> place in the call; the call]
    pend,        \* [Clients -> uncommitted writes]
    answers,     \* the transitions callers were told of: input and event
    calls, faults

dbVars   == <<booking, events, receipts, journals>>
lockVars == <<rowLock, idemLock, balLock>>
vars     == <<dbVars, due, seq, list, lockVars, pc, call, pend, answers, calls, faults>>

NoRow   == [status |-> "none", amt |-> 0, settled |-> 0, journal |-> "none"]
NoCall  == [op |-> "none", b |-> "none", key |-> <<>>, to |-> "none", amt |-> 0,
            jkey |-> "none", ev |-> 0]
NoPend  == [row |-> NoRow, events |-> {}, receipts |-> {}, journals |-> {}, got |-> 0]

Init ==
    /\ booking  = [b \in Bookings |-> NoRow]
    /\ due      = {}
    /\ events   = {} /\ receipts = {} /\ journals = {}
    /\ seq      = 0
    /\ list     = [c \in Sweepers |-> {}]
    /\ rowLock  = [b \in Bookings |-> NoClient]
    /\ idemLock = [k \in JKeys |-> NoClient]
    /\ balLock  = [b \in Bookings |-> NoClient]
    /\ pc       = [c \in Clients |-> "idle"]
    /\ call     = [c \in Clients |-> NoCall]
    /\ pend     = [c \in Clients |-> NoPend]
    /\ answers  = {}
    /\ calls    = 0
    /\ faults   = 0

-----------------------------------------------------------------------------
Goto(c, l)   == pc' = [pc EXCEPT ![c] = l]
Free(locks, c) == [x \in DOMAIN locks |-> IF locks[x] = c THEN NoClient ELSE locks[x]]

\* What a statement of c sees: committed rows and those of its own transaction.
Row(c) ==
    IF pend[c].row # NoRow THEN pend[c].row ELSE booking[call[c].b]
SeenEvents(c) == events \cup pend[c].events

\* The end of a transaction frees its locks, whatever becomes of its writes.
EndTx(c) ==
    /\ rowLock'  = Free(rowLock, c)
    /\ idemLock' = Free(idemLock, c)
    /\ balLock'  = Free(balLock, c)
    /\ pend' = [pend EXCEPT ![c] = NoPend]
    /\ call' = [call EXCEPT ![c] = NoCall]
    /\ Goto(c, "idle")

Refuse(c) ==
    /\ EndTx(c)
    /\ UNCHANGED <<dbVars, due, seq, list, answers, calls, faults>>

Commit(c) ==
    /\ pc[c] = "commit"
    /\ booking'  = IF pend[c].row = NoRow THEN booking
                   ELSE [booking EXCEPT ![call[c].b] = pend[c].row]
    /\ events'   = {e \in events : \A n \in pend[c].events : n.id # e.id}
                       \cup pend[c].events
    /\ receipts' = receipts \cup pend[c].receipts
    /\ journals' = journals \cup pend[c].journals
    /\ answers'  = IF call[c].key = <<>> THEN answers
                   ELSE answers \cup {[in |-> call[c], ev |-> pend[c].got]}
    /\ EndTx(c)
    /\ UNCHANGED <<due, seq, list, calls, faults>>

Rollback(c) ==
    /\ pc[c] # "idle"
    /\ faults < MaxFaults
    /\ faults' = faults + 1
    /\ EndTx(c)
    /\ UNCHANGED <<dbVars, due, seq, list, answers, calls>>

Begin(c, r, l) ==
    /\ pc[c] = "idle" /\ c \notin Sweepers
    /\ r.op \in Ops /\ calls < MaxCalls
    /\ calls' = calls + 1
    /\ call' = [call EXCEPT ![c] = r]
    /\ Goto(c, l)
    /\ UNCHANGED <<dbVars, due, seq, list, lockVars, pend, answers, faults>>

CreateBooking(c) ==
    \E b \in Bookings, a \in Amounts :
        Begin(c, [NoCall EXCEPT !.op = "create", !.b = b, !.amt = a], "create")

Transition(c) ==
    \E b \in Bookings, k \in TKeys, s \in Statuses, a \in Amounts \cup {0} :
        Begin(c, [NoCall EXCEPT !.op = "transition", !.b = b, !.key = k, !.to = s, !.amt = a],
              "lock")

\* The recipe of RunInTx: a transition and the journal of its event in one transaction.
RunInTx(c) ==
    \E b \in Bookings, k \in TKeys, s \in Statuses, j \in JKeys :
        Begin(c, [NoCall EXCEPT !.op = "confirm", !.b = b, !.key = k, !.to = s, !.jkey = j],
              "lock")

\* PostJournal, with an event or without.
PostJournal(c) ==
    \E j \in JKeys :
        \/ \E e \in events :
              Begin(c, [NoCall EXCEPT !.op = "post", !.b = e.b, !.jkey = j, !.ev = e.id],
                    "jlookup")
        \/ \E b \in Bookings :
              Begin(c, [NoCall EXCEPT !.op = "plain", !.b = b, !.jkey = j], "jlookup")

-----------------------------------------------------------------------------
(* CreateBooking: two statements of the pool, made safe by the unique index. *)

\* ensureBookingMatchesInput: a second create with the key either agrees or is refused.
CreateLookup(c) ==
    /\ pc[c] = "create"
    /\ IF booking[call[c].b] # NoRow THEN Refuse(c)
       ELSE /\ Goto(c, "insert")
            /\ UNCHANGED <<dbVars, due, seq, list, lockVars, call, pend, answers, calls,
                           faults>>

InsertBooking(c) == [NoRow EXCEPT !.status = Initial, !.amt = call[c].amt]

CreateInsert(c) ==
    /\ pc[c] = "insert"
    /\ booking' = IF booking[call[c].b] # NoRow THEN booking
                  ELSE [booking EXCEPT ![call[c].b] = InsertBooking(c)]
    /\ EndTx(c)
    /\ UNCHANGED <<due, seq, list, events, receipts, journals, answers, calls, faults>>

-----------------------------------------------------------------------------
(* Transition.                                                             *)

Continue(c, l) ==
    /\ Goto(c, l)
    /\ UNCHANGED <<dbVars, due, seq, list, call, answers, calls, faults>>

\* GetBookingForUpdateByUID.
LockRow(c) ==
    /\ pc[c] = "lock"
    /\ IF booking[call[c].b] = NoRow THEN Refuse(c)
       ELSE /\ rowLock[call[c].b] = NoClient
            /\ rowLock' = [rowLock EXCEPT ![call[c].b] = c]
            /\ Continue(c, "check")
            /\ UNCHANGED <<idemLock, balLock, pend>>

\* Where a transition goes once it has its event: the recipe of RunInTx posts.
After(c) == IF call[c].op = "confirm" THEN "jlookup" ELSE "commit"

Answer(c, e) ==
    /\ pend' = [pend EXCEPT ![c].got = e]
    /\ Continue(c, After(c))
    /\ UNCHANGED lockVars

Given(x, y) == x = 0 \/ x = y

ReceiptMatches(r, in) == r.b = in.b /\ r.to = in.to /\ Given(in.amt, r.amt)

LatestEvent(c) ==
    LET mine == {e \in SeenEvents(c) : e.b = call[c].b}
    IN  CHOOSE e \in mine : \A f \in mine : f.id <= e.id

\* A booking whose newest event already leads to the wanted status.
Arrived(c) ==
    /\ booking[call[c].b].status = call[c].to
    /\ \E e \in SeenEvents(c) : e.b = call[c].b
    /\ LatestEvent(c).to = call[c].to

CanTransition(from, to) == <<from, to>> \in Edges

\* The receipt of the key answers first, then the state comparison, then the
\* lifecycle decides.
Check(c) ==
    /\ pc[c] = "check"
    /\ LET found == {r \in receipts : r.key = call[c].key}
       IN  \/ /\ found # {}
              /\ \E r \in found : IF ReceiptMatches(r, call[c]) THEN Answer(c, r.ev)
                                                             ELSE Refuse(c)
           \/ /\ found = {} /\ Arrived(c)
              /\ IF Given(call[c].amt, Row(c).settled) THEN Answer(c, LatestEvent(c).id)
                                                       ELSE Refuse(c)
           \/ /\ found = {} /\ ~Arrived(c)
              /\ IF CanTransition(Row(c).status, call[c].to)
                 THEN Continue(c, "write") /\ UNCHANGED <<lockVars, pend>>
                 ELSE Refuse(c)

\* The booking's journal_id is kept; the event has none yet.
UpdateBookingTransition(c) ==
    [Row(c) EXCEPT !.status = call[c].to,
                   !.settled = IF call[c].amt = 0 THEN @ ELSE call[c].amt]
InsertEvent(c) ==
    [id |-> seq + 1, b |-> call[c].b, from |-> Row(c).status, to |-> call[c].to,
     journal |-> "none", key |-> call[c].key]

Write(c) ==
    /\ pc[c] = "write"
    /\ seq' = seq + 1
    /\ pend' = [pend EXCEPT ![c].row = UpdateBookingTransition(c),
                            ![c].events = {InsertEvent(c)},
                            ![c].got = seq + 1]
    /\ Goto(c, "receipt")
    /\ UNCHANGED <<dbVars, due, list, lockVars, call, answers, calls, faults>>

\* Fault: a receipt that is already there is taken for success.
IgnoreReceiptRace(c) ==
    /\ pc[c] = "receipt"
    /\ Continue(c, After(c))
    /\ UNCHANGED <<lockVars, pend>>

\* INSERT ... ON CONFLICT DO NOTHING waits for a racing insert of the same key.
InsertReceipt(c) ==
    /\ pc[c] = "receipt"
    /\ \A d \in Clients \ {c} : \A r \in pend[d].receipts : r.key # call[c].key
    /\ IF \E r \in receipts : r.key = call[c].key THEN Refuse(c)
       ELSE /\ pend' = [pend EXCEPT ![c].receipts =
                           {[key |-> call[c].key, b |-> call[c].b, to |-> call[c].to,
                             amt |-> call[c].amt, ev |-> pend[c].got]}]
            /\ Continue(c, After(c))
            /\ UNCHANGED lockVars

-----------------------------------------------------------------------------
(* PostJournal, as far as its event and booking go.  "plain" names no event. *)

EventOf(c) == IF call[c].op = "post" THEN call[c].ev ELSE pend[c].got
TheEvent(c) == CHOOSE e \in SeenEvents(c) : e.id = EventOf(c)
Links(c) == call[c].op # "plain"

JournalFor(c) == {j \in journals : j.key = call[c].jkey}

\* A journal of the key already there: the same event is a replay, another a conflict.
Replay(c) ==
    IF \E j \in JournalFor(c) : j.ev = EventOf(c)
    THEN Continue(c, "commit") /\ UNCHANGED <<lockVars, pend>>
    ELSE Refuse(c)

JLookup(c) ==
    /\ pc[c] = "jlookup"
    /\ IF JournalFor(c) # {} THEN Replay(c)
       ELSE Continue(c, "jidem") /\ UNCHANGED <<lockVars, pend>>

JIdem(c) ==
    /\ pc[c] = "jidem"
    /\ idemLock[call[c].jkey] = NoClient
    /\ idemLock' = [idemLock EXCEPT ![call[c].jkey] = c]
    /\ Continue(c, "jrecheck")
    /\ UNCHANGED <<rowLock, balLock, pend>>

JRecheck(c) ==
    /\ pc[c] = "jrecheck"
    /\ IF JournalFor(c) # {} THEN Replay(c)
       ELSE /\ Continue(c, IF Links(c) THEN "jevent" ELSE "jbal")
            /\ UNCHANGED <<lockVars, pend>>

\* The gate of the set-once rule, read before the row lock is held.
JEvent(c) ==
    /\ pc[c] = "jevent"
    /\ IF TheEvent(c).journal # "none" THEN Refuse(c)
       ELSE Continue(c, "jrow") /\ UNCHANGED <<lockVars, pend>>

JRow(c) ==
    /\ pc[c] = "jrow"
    /\ rowLock[call[c].b] \in {NoClient, c}
    /\ rowLock' = [rowLock EXCEPT ![call[c].b] = c]
    /\ Continue(c, "jbal")
    /\ UNCHANGED <<idemLock, balLock, pend>>

JBalance(c) ==
    /\ pc[c] = "jbal"
    /\ balLock[call[c].b] = NoClient
    /\ balLock' = [balLock EXCEPT ![call[c].b] = c]
    /\ Continue(c, IF Links(c) THEN "jlink" ELSE "commit")
    /\ UNCHANGED <<rowLock, idemLock, pend>>

LinkEventJournal(c)   == [TheEvent(c) EXCEPT !.journal = call[c].jkey]
LinkBookingJournal(c) == [Row(c) EXCEPT !.journal = call[c].jkey]

\* Fault: the event is linked and its booking is not.
LinkEventOnly(c) ==
    /\ pc[c] = "jlink"
    /\ rowLock[call[c].b] \in {NoClient, c}
    /\ IF TheEvent(c).journal # "none" \/ Row(c).journal # "none" THEN Refuse(c)
       ELSE /\ rowLock' = [rowLock EXCEPT ![call[c].b] = c]
            /\ pend' = [pend EXCEPT
                  ![c].events   = {LinkEventJournal(c)},
                  ![c].journals = {[key |-> call[c].jkey, ev |-> EventOf(c)]}]
            /\ Continue(c, "commit")
            /\ UNCHANGED <<idemLock, balLock>>

\* linkJournalToEventAndBooking: both links are set once; its UPDATE takes the row
\* lock when nothing has taken it yet.
JLink(c) ==
    /\ pc[c] = "jlink"
    /\ rowLock[call[c].b] \in {NoClient, c}
    /\ IF TheEvent(c).journal # "none" \/ Row(c).journal # "none" THEN Refuse(c)
       ELSE /\ rowLock' = [rowLock EXCEPT ![call[c].b] = c]
            /\ pend' = [pend EXCEPT
                  ![c].events   = {LinkEventJournal(c)},
                  ![c].row      = LinkBookingJournal(c),
                  ![c].journals = {[key |-> call[c].jkey, ev |-> EventOf(c)]}]
            /\ Continue(c, "commit")
            /\ UNCHANGED <<idemLock, balLock>>

-----------------------------------------------------------------------------
(* The expiry sweep.                                                       *)

Expire == "expired"

\* expires_at passes.
Tick(b) ==
    /\ booking[b] # NoRow /\ b \notin due
    /\ due' = due \cup {b}
    /\ UNCHANGED <<dbVars, seq, list, lockVars, pc, call, pend, answers, calls, faults>>

ListExpiredBookings ==
    {b \in due : CanTransition(booking[b].status, Expire)}

SweepStart(c) ==
    /\ c \in Sweepers /\ pc[c] = "idle"
    /\ list[c] = {} /\ ListExpiredBookings # {}
    /\ list' = [list EXCEPT ![c] = ListExpiredBookings]
    /\ UNCHANGED <<dbVars, due, seq, lockVars, pc, call, pend, answers, calls, faults>>

\* Fault: one key for every booking of the sweep.
SweepSharedKey(c) ==
    /\ c \in Sweepers /\ pc[c] = "idle"
    /\ \E b \in list[c] :
          /\ list' = [list EXCEPT ![c] = @ \ {b}]
          /\ call' = [call EXCEPT ![c] =
                [NoCall EXCEPT !.op = "transition", !.b = b, !.to = Expire,
                               !.key = <<"expire-booking">>]]
    /\ Goto(c, "lock")
    /\ UNCHANGED <<dbVars, due, seq, lockVars, pend, answers, calls, faults>>

\* One Transition per booking listed; a refusal is logged and the sweep goes on.
SweepNext(c) ==
    /\ c \in Sweepers /\ pc[c] = "idle"
    /\ \E b \in list[c] :
          /\ list' = [list EXCEPT ![c] = @ \ {b}]
          /\ call' = [call EXCEPT ![c] =
                [NoCall EXCEPT !.op = "transition", !.b = b, !.to = Expire,
                               !.key = <<"expire-booking", b>>]]
    /\ Goto(c, "lock")
    /\ UNCHANGED <<dbVars, due, seq, lockVars, pend, answers, calls, faults>>

-----------------------------------------------------------------------------
Step(c) ==
    \/ CreateLookup(c) \/ CreateInsert(c)
    \/ LockRow(c) \/ Check(c) \/ Write(c) \/ InsertReceipt(c)
    \/ JLookup(c) \/ JIdem(c) \/ JRecheck(c) \/ JEvent(c) \/ JRow(c) \/ JBalance(c)
    \/ JLink(c)
    \/ Commit(c)

Next ==
    \/ \E c \in Clients : CreateBooking(c) \/ Transition(c) \/ RunInTx(c) \/ PostJournal(c)
    \/ \E c \in Clients : Step(c) \/ Rollback(c)
    \/ \E c \in Sweepers : SweepStart(c) \/ SweepNext(c)
    \/ \E b \in Bookings : Tick(b)

BookingSpec == Init /\ [][Next]_vars

\* A transaction under way goes on, and the worker runs its sweeps again and again.
FairBookingSpec ==
    /\ BookingSpec
    /\ \A c \in Clients : WF_vars(Step(c))
    /\ \A c \in Sweepers : WF_vars(SweepStart(c)) /\ WF_vars(SweepNext(c))

-----------------------------------------------------------------------------

\* The committed events of a booking, in the order of their ids, are a walk in its
\* lifecycle from the initial status to the present one: the row lock of
\* transitionWithQueries leaves no room for a lost or doubled transition.
EventsFormPath ==
    \A b \in Bookings :
        LET mine == {e \in events : e.b = b}
            Prev(e) == {f \in mine : f.id < e.id}
            Last(S) == CHOOSE e \in S : \A f \in S : f.id <= e.id
        IN  /\ \A e \in mine :
                  /\ CanTransition(e.from, e.to)
                  /\ e.from = IF Prev(e) = {} THEN Initial ELSE Last(Prev(e)).to
            /\ booking[b] # NoRow =>
                  booking[b].status = IF mine = {} THEN Initial ELSE Last(mine).to

\* A transition key is applied at most once, whatever booking its callers name and
\* however late a retry comes: no two events were written under the same key.
KeyAppliedOnce ==
    \A e, f \in events : e.key = f.key => e.id = f.id

\* A journal that names an event is the one its event points at, a booking points at the
\* journal of one of its own events, and no event of the booking has another.
LinksAgree ==
    /\ \A j \in journals : \E e \in events : e.id = j.ev /\ e.journal = j.key
    /\ \A e \in events : e.journal # "none" => booking[e.b].journal = e.journal
    /\ \A b \in Bookings : booking[b].journal # "none" =>
          \E j \in journals, e \in events :
              j.key = booking[b].journal /\ e.id = j.ev /\ e.b = b

\* What Transition leaves behind is one walk through the lifecycle, each step of it made
\* by one call.
HistorySound == EventsFormPath /\ KeyAppliedOnce
=============================================================================
