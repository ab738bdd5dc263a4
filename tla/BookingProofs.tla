---------------------------- MODULE BookingProofs ----------------------------
(***************************************************************************)
(* The links between journals, events and bookings agree, the events of a  *)
(* booking are a walk through its lifecycle and a transition key is        *)
(* applied once, for every set of callers, bookings and keys and for every *)
(* lifecycle.                                                              *)
(***************************************************************************)
EXTENDS Booking, TLAPS

TransitionKeys == TKeys \cup {<<"expire-booking", b>> : b \in Bookings}

Rows      == [status : Statuses, amt : Nat, settled : Nat, journal : JKeys \cup {"none"}]
EventRows == [id : Nat, b : Bookings, from : Statuses, to : Statuses,
              journal : JKeys \cup {"none"}, key : TransitionKeys]

Shape ==
    /\ seq \in Nat
    /\ booking \in [Bookings -> Rows \cup {NoRow}]
    /\ events \subseteq EventRows
    /\ \A j \in journals : j.key \in JKeys
    /\ due \subseteq Bookings /\ list \in [Sweepers -> SUBSET Bookings]
    /\ rowLock = [b \in Bookings |-> rowLock[b]]
    /\ pc      = [c \in Clients |-> pc[c]]
    /\ call    = [c \in Clients |-> call[c]]
    /\ pend    = [c \in Clients |-> pend[c]]

-----------------------------------------------------------------------------
(* The committed rows.                                                     *)

\* An id is given to one event, of a booking that is there.
IdsSound ==
    /\ \A e \in events : e.id <= seq /\ booking[e.b] # NoRow
    /\ \A e, f \in events : e.id = f.id => e = f

\* Events and receipts belong together, one by one.
ReceiptsSound ==
    /\ \A e \in events : \E r \in receipts : r.key = e.key /\ r.ev = e.id
    /\ \A r \in receipts : \E e \in events : e.id = r.ev /\ e.b = r.b
    /\ \A r, s \in receipts : r.key = s.key => r = s

\* e is the newest of the events S.
Newest(e, S) == e \in S /\ \A f \in S : f.id <= e.id

Mine(b) == {e \in events : e.b = b}
Before(e) == {f \in events : f.b = e.b /\ f.id < e.id}

\* e goes on from where the event before it led.
FollowsOn(e) ==
    \/ Before(e) = {} /\ e.from = Initial
    \/ \E p \in events : Newest(p, Before(e)) /\ p.to = e.from

\* b stands where its newest event led.
StandsAt(b) ==
    \/ Mine(b) = {} /\ booking[b].status = Initial
    \/ \E e \in events : Newest(e, Mine(b)) /\ e.to = booking[b].status

\* EventsFormPath, step by step.
Walk ==
    /\ \A e \in events : CanTransition(e.from, e.to) /\ FollowsOn(e)
    /\ \A b \in Bookings : booking[b] # NoRow => StandsAt(b)

-----------------------------------------------------------------------------
(* The transaction of a client.                                            *)

Posting == {"jlookup", "jidem", "jrecheck", "jevent", "jrow", "jbal", "jlink"}
PCs     == {"idle", "create", "insert", "lock", "check", "write", "receipt", "commit"}
               \cup Posting

IsWrites(p) ==
    p = [row |-> p.row, events |-> p.events, receipts |-> p.receipts, journals |-> p.journals,
         got |-> p.got]

Known(i, b) == \E e \in events : e.id = i /\ e.b = b

Holds(c) == rowLock[call[c].b] = c /\ booking[call[c].b] # NoRow

\* c has written nothing, though it may have an event to answer with.
Quiet(c) ==
    /\ IsWrites(pend[c]) /\ pend[c].row = NoRow
    /\ pend[c].events = {} /\ pend[c].receipts = {} /\ pend[c].journals = {}

\* n is the event of a transition that is not committed: newer than every event of the
\* booking, and a step on from its status.
Fresh(c, n) ==
    /\ n.id = pend[c].got /\ n.id <= seq /\ n.key = call[c].key
    /\ n.from = booking[call[c].b].status /\ n.to = pend[c].row.status
    /\ CanTransition(n.from, n.to)
    /\ \A e \in events : e.id # n.id /\ (e.b = call[c].b => e.id < n.id)

\* n is a committed event but for its journal.
Same(e, n) == e.id = n.id /\ e.b = n.b /\ e.from = n.from /\ e.to = n.to /\ e.key = n.key

Old(c, n) ==
    /\ \E e \in events : Same(e, n) /\ e.journal = "none"
    /\ pend[c].row.status = booking[call[c].b].status
    /\ pend[c].receipts = {}

Receipted(c) ==
    /\ \A r \in receipts : r.key # call[c].key
    /\ \E r \in pend[c].receipts : /\ pend[c].receipts = {r}
                                   /\ r.key = call[c].key /\ r.b = call[c].b
                                   /\ r.ev = pend[c].got

Unlinked(c, n) ==
    /\ pend[c].journals = {} /\ n.journal = "none"
    /\ pend[c].row.journal = booking[call[c].b].journal

Linked(c, n) ==
    /\ pend[c].journals = {[key |-> n.journal, ev |-> n.id]}
    /\ n.journal \in JKeys /\ pend[c].row.journal = n.journal
    /\ booking[call[c].b].journal = "none"

Pending(c, n) ==
    /\ Holds(c)
    /\ IsWrites(pend[c]) /\ pend[c].events = {n}
    /\ n \in EventRows /\ n.b = call[c].b /\ pend[c].row \in Rows

Applied(c) ==
    \E n \in pend[c].events : Pending(c, n) /\ Fresh(c, n) /\ Receipted(c) /\ Unlinked(c, n)

CallSound(c) ==
    /\ pc[c] \in PCs
    /\ pc[c] # "idle" => call[c].b \in Bookings /\ call[c].amt \in Nat
    /\ pc[c] \in {"lock", "check", "write", "receipt"} =>
          /\ call[c].op \in {"transition", "confirm"} /\ call[c].key \in TransitionKeys
          /\ call[c].op = "confirm" => call[c].jkey \in JKeys
    /\ pc[c] \in Posting =>
          /\ call[c].op \in {"confirm", "post", "plain"} /\ call[c].jkey \in JKeys
          /\ pc[c] \in {"jevent", "jrow", "jlink"} => call[c].op # "plain"

PendSound(c) ==
    /\ pc[c] \in {"idle", "create", "insert", "lock"} => pend[c] = NoPend
    /\ pc[c] \in {"check", "write"} => pend[c] = NoPend /\ Holds(c)
    /\ pc[c] = "write" => CanTransition(booking[call[c].b].status, call[c].to)
    /\ pc[c] = "receipt" =>
          /\ pend[c].receipts = {}
          /\ \E n \in pend[c].events : Pending(c, n) /\ Fresh(c, n) /\ Unlinked(c, n)
    /\ pc[c] \in Posting =>
          \/ call[c].op = "plain" /\ pend[c] = NoPend
          \/ call[c].op = "post" /\ pend[c] = NoPend /\ Known(call[c].ev, call[c].b)
          \/ call[c].op = "confirm" /\ Quiet(c) /\ Holds(c) /\ Known(pend[c].got, call[c].b)
          \/ call[c].op = "confirm" /\ Applied(c)
    /\ pc[c] = "commit" =>
          \/ Quiet(c)
          \/ Applied(c)
          \/ \E n \in pend[c].events :
                Pending(c, n) /\ Linked(c, n) /\ (Old(c, n) \/ (Fresh(c, n) /\ Receipted(c)))

ClientSound(c) == CallSound(c) /\ PendSound(c)

\* Two transactions insert neither the same event nor a receipt of the same key.
Apart(c, d) ==
    /\ \A n \in pend[c].events, m \in pend[d].events : n.id # m.id
    /\ \A r \in pend[c].receipts, s \in pend[d].receipts : r.key # s.key

BookingInv ==
    /\ Shape /\ IdsSound /\ ReceiptsSound /\ Walk /\ LinksAgree
    /\ \A c \in Clients : ClientSound(c)
    /\ \A c, d \in Clients : c # d => Apart(c, d)

-----------------------------------------------------------------------------
(* Steps of one client, seen from the others.                              *)

\* A row that is there is not the row of a booking that is not.
LEMMA RowsThere == BookingAssumption => NoRow \notin Rows
<1>1. NoRow.status = "none"
    BY Zenon DEF NoRow
<1>. QED  BY <1>1, Zenon DEF BookingAssumption, Rows

\* Writing one field leaves a record of writes.
LEMMA WritesExcept ==
    ASSUME NEW p, IsWrites(p), NEW x
    PROVE  /\ IsWrites([p EXCEPT !.row = x])      /\ IsWrites([p EXCEPT !.events = x])
           /\ IsWrites([p EXCEPT !.receipts = x]) /\ IsWrites([p EXCEPT !.journals = x])
           /\ IsWrites([p EXCEPT !.got = x])
<1>1. IsWrites([p EXCEPT !.row = x])
    BY DEF IsWrites
<1>2. IsWrites([p EXCEPT !.events = x])
    BY DEF IsWrites
<1>3. IsWrites([p EXCEPT !.receipts = x])
    BY DEF IsWrites
<1>4. IsWrites([p EXCEPT !.journals = x])
    BY DEF IsWrites
<1>5. IsWrites([p EXCEPT !.got = x])
    BY DEF IsWrites
<1>. QED  BY <1>1, <1>2, <1>3, <1>4, <1>5, Zenon

\* A transaction that has written nothing.
LEMMA NoPendFields ==
    /\ IsWrites(NoPend)
    /\ NoPend.row = NoRow /\ NoPend.events = {} /\ NoPend.receipts = {} /\ NoPend.journals = {}
<1>1. IsWrites(NoPend)
    BY Zenon DEF IsWrites, NoPend
<1>. QED  BY <1>1, Zenon DEF NoPend

\* What is known of the transaction of d depends on its own locks, on the booking it
\* has locked with its events, and on ids and keys that others leave free.
LEMMA OtherSound ==
    ASSUME NEW d, ClientSound(d),
           pc'[d] = pc[d], call'[d] = call[d], pend'[d] = pend[d],
           seq \in Nat, seq' \in Nat, seq <= seq', events \subseteq EventRows,
           call[d].b \in Bookings /\ Holds(d) =>
               /\ rowLock'[call[d].b] = d
               /\ booking'[call[d].b] = booking[call[d].b]
               /\ \A e \in events : e.b = call[d].b => e \in events'
               /\ \A e \in events' : e.b = call[d].b => e \in events,
           \A e \in events : Known(e.id, e.b)',
           \A n \in pend[d].events :
               (\A e \in events : e.id # n.id) => \A e \in events' : e.id # n.id,
           \A r \in pend[d].receipts :
               (\A s \in receipts : s.key # r.key) => \A s \in receipts' : s.key # r.key
    PROVE  ClientSound(d)'
<1> DEFINE b == call[d].b
<1>1. CallSound(d)'
    BY Zenon DEF ClientSound, CallSound
<1>2. b \in Bookings /\ Holds(d) => Holds(d)' /\ booking'[b] = booking[b]
    BY Zenon DEF Holds
<1>3. Quiet(d) => Quiet(d)'
    BY Zenon DEF Quiet
<1>4. ASSUME NEW i, Known(i, b) PROVE Known(i, b)'
    <2>1. PICK e \in events : e.id = i /\ e.b = b
        BY <1>4, Zenon DEF Known
    <2>2. PICK f \in events' : f.id = e.id /\ f.b = e.b
        BY Zenon DEF Known
    <2>. QED  BY <2>1, <2>2, Zenon DEF Known
<1>5. ASSUME NEW n \in pend[d].events, Pending(d, n), b \in Bookings
      PROVE  /\ Pending(d, n)'
             /\ Fresh(d, n) => Fresh(d, n)'
             /\ Old(d, n) => Old(d, n)'
             /\ Unlinked(d, n) => Unlinked(d, n)'
             /\ Linked(d, n) => Linked(d, n)'
             /\ Receipted(d) => Receipted(d)'
    <2>1. Holds(d)' /\ booking'[b] = booking[b]
        BY <1>2, <1>5, Zenon DEF Pending
    <2>2. /\ Pending(d, n)'
          /\ Unlinked(d, n) => Unlinked(d, n)'
          /\ Linked(d, n) => Linked(d, n)'
        BY <1>5, <2>1, Zenon DEF Pending, Unlinked, Linked
    <2>3. Holds(d)
        BY <1>5, Zenon DEF Pending
    <2>4. ASSUME Fresh(d, n) PROVE Fresh(d, n)'
        <3>1. n.id <= seq'
            BY <1>5, <2>4 DEF Fresh, Pending, EventRows
        <3>2. \A e \in events' : e.id # n.id /\ (e.b = b => e.id < n.id)
            BY <1>5, <2>3, <2>4, Zenon DEF Fresh
        <3>. QED  BY <2>1, <2>4, <3>1, <3>2, Zenon DEF Fresh
    <2>5. ASSUME Old(d, n) PROVE Old(d, n)'
        <3>1. PICK e \in events : Same(e, n) /\ e.journal = "none"
            BY <2>5, Zenon DEF Old
        <3>2. e \in events'
            BY <1>5, <2>3, <3>1, Zenon DEF Same, Pending
        <3>. QED  BY <2>1, <2>5, <3>1, <3>2, Zenon DEF Old
    <2>6. ASSUME Receipted(d) PROVE Receipted(d)'
        <3>1. PICK r \in pend[d].receipts : /\ pend[d].receipts = {r}
                                          /\ r.key = call[d].key /\ r.b = call[d].b
                                          /\ r.ev = pend[d].got
            BY <2>6, Zenon DEF Receipted
        <3>2. \A s \in receipts : s.key # r.key
            BY <2>6, <3>1, Zenon DEF Receipted
        <3>3. \A s \in receipts' : s.key # r.key
            BY <3>2, Zenon
        <3>. QED  BY <3>1, <3>3, Zenon DEF Receipted
    <2>. QED  BY <2>2, <2>4, <2>5, <2>6, Zenon
<1>6. pc[d] # "idle" => b \in Bookings
    BY Zenon DEF ClientSound, CallSound
<1>7. b \in Bookings /\ Applied(d) => Applied(d)'
    BY <1>5, Zenon DEF Applied
<1>8. PendSound(d)'
    <2>1. pc[d] \in {"idle", "create", "insert", "lock"} => pend'[d] = NoPend
        BY Zenon DEF ClientSound, PendSound
    <2>2. pc[d] \in {"check", "write"} => pend'[d] = NoPend /\ Holds(d)'
        BY <1>2, <1>6, Zenon DEF ClientSound, PendSound
    <2>3. pc[d] = "write" => CanTransition(booking'[b].status, call[d].to)
        BY <1>2, <1>6, Zenon DEF ClientSound, PendSound
    <2>4. pc[d] = "receipt" =>
              /\ pend[d].receipts = {}
              /\ \E n \in pend[d].events : (Pending(d, n) /\ Fresh(d, n) /\ Unlinked(d, n))'
        BY <1>5, <1>6, Zenon DEF ClientSound, PendSound
    <2>5. pc[d] \in Posting =>
          \/ call[d].op = "plain" /\ pend[d] = NoPend
          \/ call[d].op = "post" /\ pend[d] = NoPend /\ Known(call[d].ev, call[d].b)'
          \/ call[d].op = "confirm" /\ Quiet(d)' /\ Holds(d)' /\ Known(pend[d].got, call[d].b)'
          \/ call[d].op = "confirm" /\ Applied(d)'
        BY <1>2, <1>3, <1>4, <1>6, <1>7, Zenon DEF ClientSound, PendSound, Posting
    <2>6. pc[d] = "commit" =>
          \/ Quiet(d)'
          \/ Applied(d)'
          \/ \E n \in pend[d].events :
                /\ Pending(d, n)' /\ Linked(d, n)'
                /\ Old(d, n)' \/ (Fresh(d, n) /\ Receipted(d))'
        BY <1>3, <1>5, <1>6, <1>7, Zenon DEF ClientSound, PendSound
    <2>. QED  BY <2>1, <2>2, <2>3, <2>4, <2>5, <2>6, Zenon DEF PendSound, Known
<1>. QED  BY <1>1, <1>8, Zenon DEF ClientSound

\* Only client c moves: the others keep their place, their call, their writes and their
\* row locks.
OnlyMoves(c) ==
    /\ seq' \in Nat /\ seq <= seq'
    /\ due' \subseteq Bookings /\ list' \in [Sweepers -> SUBSET Bookings]
    /\ rowLock' = [b \in Bookings |-> rowLock'[b]]
    /\ pc'      = [d \in Clients |-> pc'[d]]
    /\ call'    = [d \in Clients |-> call'[d]]
    /\ pend'    = [d \in Clients |-> pend'[d]]
    /\ \A d \in Clients \ {c} :
          /\ pc'[d] = pc[d] /\ call'[d] = call[d] /\ pend'[d] = pend[d]
          /\ \A b \in Bookings : rowLock[b] = d => rowLock'[b] = d

\* When one client moves and stays apart from the others, all stay apart.
LEMMA ApartKept ==
    ASSUME BookingInv, NEW c \in Clients, OnlyMoves(c), \A d \in Clients \ {c} : Apart(c, d)'
    PROVE  \A a, d \in Clients : a # d => Apart(a, d)'
<1>1. ASSUME NEW a \in Clients, NEW d \in Clients, a # d PROVE Apart(a, d)'
    <2>1. CASE a = c
        BY <1>1, <2>1, Zenon
    <2>2. CASE d = c
        <3>1. Apart(d, a)'
            BY <1>1, <2>2, Zenon
        <3>. QED  BY <3>1, Zenon DEF Apart
    <2>3. CASE a # c /\ d # c
        <3>1. Apart(a, d) /\ pend'[a] = pend[a] /\ pend'[d] = pend[d]
            BY <1>1, <2>3, Zenon DEF BookingInv, OnlyMoves
        <3>. QED  BY <3>1, Zenon DEF Apart
    <2>. QED  BY <2>1, <2>2, <2>3, Zenon
<1>. QED  BY <1>1, Zenon

\* What is linked stays linked while bookings, events and journals stay.
LEMMA LinksStay ==
    ASSUME LinksAgree, UNCHANGED <<booking, events, journals>> PROVE LinksAgree'
<1>1. booking' = booking /\ events' = events /\ journals' = journals
    BY Zenon
<1>. QED  BY <1>1 DEF LinksAgree

\* A step that commits nothing keeps the invariant once it keeps it for its client.
LEMMA LocalStep ==
    ASSUME BookingInv, NEW c \in Clients, OnlyMoves(c), UNCHANGED dbVars,
           ClientSound(c)', \A d \in Clients \ {c} : Apart(c, d)'
    PROVE  BookingInv'
<1>1. UNCHANGED <<booking, events, receipts, journals>>
    BY Zenon DEF dbVars
<1>2. Shape'
    BY <1>1, Zenon DEF BookingInv, Shape, OnlyMoves
<1>3. IdsSound'
    <2>1. \A e \in events : e.id <= seq'
        BY DEF BookingInv, Shape, IdsSound, EventRows, OnlyMoves
    <2>. QED  BY <1>1, <2>1, Zenon DEF BookingInv, IdsSound
<1>4. ReceiptsSound' /\ Walk' /\ LinksAgree'
    <2>1. ReceiptsSound'
        BY <1>1, Zenon DEF BookingInv, ReceiptsSound
    <2>4. LinksAgree'
        BY <1>1, LinksStay, Zenon DEF BookingInv
    <2>2. \A e \in events : FollowsOn(e) => FollowsOn(e)'
        BY <1>1, Zenon DEF FollowsOn, Before, Newest
    <2>3. \A b \in Bookings : StandsAt(b) => StandsAt(b)'
        BY <1>1, Zenon DEF StandsAt, Mine, Newest
    <2>. QED  BY <1>1, <2>1, <2>2, <2>3, <2>4, Zenon DEF BookingInv, Walk
<1>5. ASSUME NEW d \in Clients \ {c} PROVE ClientSound(d)'
    <2>1. seq \in Nat /\ seq' \in Nat /\ seq <= seq' /\ events \subseteq EventRows
        BY Zenon DEF BookingInv, Shape, OnlyMoves
    <2>2. ClientSound(d) /\ pc'[d] = pc[d] /\ call'[d] = call[d] /\ pend'[d] = pend[d]
        BY Zenon DEF BookingInv, OnlyMoves
    <2>3. \A e \in events : Known(e.id, e.b)'
        BY <1>1, Zenon DEF Known
    <2>4. \A b \in Bookings : rowLock[b] = d => rowLock'[b] = d
        BY Zenon DEF OnlyMoves
    <2>. QED  BY <1>1, <2>1, <2>2, <2>3, <2>4, OtherSound, Zenon DEF Holds
<1>6. \A a, d \in Clients : a # d => Apart(a, d)'
    BY ApartKept, Zenon
<1>. QED  BY <1>2, <1>3, <1>4, <1>5, <1>6, Zenon DEF BookingInv

\* The empty database satisfies the invariant.
LEMMA BookingInitInv ==
    ASSUME BookingAssumption, Init PROVE BookingInv
<1>1. events = {} /\ receipts = {} /\ journals = {} /\ \A b \in Bookings : booking[b] = NoRow
    BY Zenon DEF Init
<1>2. Shape
    <2>1. booking \in [Bookings -> Rows \cup {NoRow}]
        BY Zenon DEF Init
    <2>2. seq \in Nat
        BY Zenon DEF Init
    <2>. QED  BY <1>1, <2>1, <2>2, Zenon DEF Init, Shape
<1>3. IdsSound /\ ReceiptsSound
    BY <1>1, Zenon DEF IdsSound, ReceiptsSound
<1>4. Walk
    BY <1>1, Zenon DEF Walk
<1>5. LinksAgree
    <2>1. NoRow.journal = "none"
        BY Zenon DEF NoRow
    <2>. QED  BY <1>1, <2>1, Zenon DEF LinksAgree
<1>6. ASSUME NEW c \in Clients PROVE pc[c] = "idle" /\ pend[c] = NoPend
    BY Zenon DEF Init
<1>7. ASSUME NEW c \in Clients PROVE ClientSound(c)
    BY <1>6, Zenon DEF ClientSound, CallSound, PendSound, PCs, Posting
<1>8. NoPend.events = {} /\ NoPend.receipts = {}
    BY Zenon DEF NoPend
<1>9. \A c, d \in Clients : Apart(c, d)
    BY <1>6, <1>8, Zenon DEF Apart
<1>. QED  BY <1>2, <1>3, <1>4, <1>5, <1>7, <1>9, Zenon DEF BookingInv

\* Nothing written, nothing in the way of others.
LEMMA NothingPending ==
    ASSUME NEW c, pend'[c] = NoPend PROVE Quiet(c)' /\ \A d : Apart(c, d)'
BY NoPendFields, Zenon DEF Apart, Quiet

\* The end of a transaction concerns its client alone.
LEMMA EndMoves ==
    ASSUME BookingAssumption, BookingInv, NEW c \in Clients, EndTx(c),
           UNCHANGED <<due, seq, list>>
    PROVE  OnlyMoves(c) /\ ClientSound(c)' /\ \A d \in Clients \ {c} : Apart(c, d)'
<1>1. pc'[c] = "idle" /\ pend'[c] = NoPend
    BY Zenon DEF BookingInv, Shape, EndTx, Goto
<1>2. rowLock' = [b \in Bookings |-> IF rowLock[b] = c THEN NoClient ELSE rowLock[b]]
    <2>1. DOMAIN rowLock = Bookings
        BY Zenon DEF BookingInv, Shape
    <2>. QED  BY <2>1, Zenon DEF EndTx, Free
<1>3. OnlyMoves(c)
    <2>1. seq' \in Nat /\ seq <= seq'
        BY DEF BookingInv, Shape
    <2>2. rowLock' = [b \in Bookings |-> rowLock'[b]]
        BY <1>2, Zenon
    <2>3. /\ pc' = [d \in Clients |-> pc'[d]] /\ call' = [d \in Clients |-> call'[d]]
          /\ pend' = [d \in Clients |-> pend'[d]]
        BY Zenon DEF BookingInv, Shape, EndTx, Goto
    <2>4. ASSUME NEW d \in Clients \ {c}
          PROVE  /\ pc'[d] = pc[d] /\ call'[d] = call[d] /\ pend'[d] = pend[d]
                 /\ \A b \in Bookings : rowLock[b] = d => rowLock'[b] = d
        <3>1. pc'[d] = pc[d] /\ call'[d] = call[d] /\ pend'[d] = pend[d]
            BY Zenon DEF BookingInv, Shape, EndTx, Goto
        <3>. QED  BY <1>2, <3>1, Zenon
    <2>. QED  BY <2>1, <2>2, <2>3, <2>4, Zenon DEF OnlyMoves, BookingInv, Shape
<1>4. ClientSound(c)'
    BY <1>1, Zenon DEF ClientSound, CallSound, PendSound, PCs, Posting
<1>. QED  BY <1>1, <1>3, <1>4, NothingPending, Zenon

\* A transaction that ends without a commit leaves no trace.
LEMMA EndInv ==
    ASSUME BookingAssumption, BookingInv, NEW c \in Clients, EndTx(c),
           UNCHANGED <<dbVars, due, seq, list>>
    PROVE  BookingInv'
BY EndMoves, LocalStep, Zenon

\* A call the code refuses with an error rolls its transaction back: it leaves no trace.
LEMMA RefuseInv ==
    ASSUME BookingAssumption, BookingInv, NEW c \in Clients, Refuse(c) PROVE BookingInv'
BY EndInv, Zenon DEF Refuse

\* A call begins.
LEMMA BeginInv ==
    ASSUME BookingInv, NEW c \in Clients, NEW r, NEW l, pc[c] = "idle",
           Goto(c, l), call' = [call EXCEPT ![c] = r],
           UNCHANGED <<dbVars, due, seq, rowLock, pend>>, list' \in [Sweepers -> SUBSET Bookings],
           r.b \in Bookings, r.amt \in Nat,
           \/ l = "create"
           \/ /\ l = "lock" /\ r.op \in {"transition", "confirm"} /\ r.key \in TransitionKeys
              /\ r.op = "confirm" => r.jkey \in JKeys
           \/ /\ l = "jlookup" /\ r.jkey \in JKeys
              /\ r.op = "plain" \/ (r.op = "post" /\ Known(r.ev, r.b))
    PROVE  BookingInv'
<1>1. pc'[c] = l /\ call'[c] = r /\ pend'[c] = pend[c]
    BY Zenon DEF BookingInv, Shape, Goto
<1>2. pend[c] = NoPend
    BY Zenon DEF BookingInv, ClientSound, PendSound
<1>3. OnlyMoves(c)
    <2>1. seq' \in Nat /\ seq <= seq'
        BY DEF BookingInv, Shape
    <2>2. /\ pc' = [d \in Clients |-> pc'[d]] /\ call' = [d \in Clients |-> call'[d]]
          /\ pend' = [d \in Clients |-> pend'[d]] /\ rowLock' = [b \in Bookings |-> rowLock'[b]]
        BY Zenon DEF BookingInv, Shape, Goto
    <2>3. \A d \in Clients \ {c} : pc'[d] = pc[d] /\ call'[d] = call[d] /\ pend'[d] = pend[d]
        BY Zenon DEF BookingInv, Shape, Goto
    <2>. QED  BY <2>1, <2>2, <2>3, Zenon DEF OnlyMoves, BookingInv, Shape
<1>4. CallSound(c)'
    BY <1>1, Zenon DEF CallSound, PCs, Posting
<1>5. PendSound(c)'
    <2>1. Known(r.ev, r.b) => Known(r.ev, r.b)'
        BY Zenon DEF Known, dbVars
    <2>2. l \notin {"idle", "check", "write", "receipt", "commit"}
        BY Zenon
    <2>3. l \in Posting =>
              \/ r.op = "plain" /\ pend'[c] = NoPend
              \/ r.op = "post" /\ pend'[c] = NoPend /\ Known(r.ev, r.b)'
        BY <1>1, <1>2, <2>1, Zenon DEF Posting
    <2>. QED  BY <1>1, <1>2, <2>2, <2>3, Zenon DEF PendSound, Known
<1>. QED  BY <1>1, <1>2, <1>3, <1>4, <1>5, NothingPending, LocalStep, Zenon DEF ClientSound

\* Every way a call begins: the API and the expiry sweep.
LEMMA BeginsInv ==
    ASSUME BookingAssumption, BookingInv, NEW c \in Clients,
           \/ CreateBooking(c) \/ Transition(c) \/ RunInTx(c) \/ PostJournal(c) \/ SweepNext(c)
    PROVE  BookingInv'
<1>1. Amounts \cup {0} \subseteq Nat
    BY DEF BookingAssumption
<1>0. list \in [Sweepers -> SUBSET Bookings]
    BY Zenon DEF BookingInv, Shape
<1>2. CASE CreateBooking(c)
    <2>1. PICK b \in Bookings, a \in Amounts :
              Begin(c, [NoCall EXCEPT !.op = "create", !.b = b, !.amt = a], "create")
        BY <1>2, Zenon DEF CreateBooking
    <2> DEFINE r == [NoCall EXCEPT !.op = "create", !.b = b, !.amt = a]
    <2>2. r.b = b /\ r.amt = a
        BY Zenon DEF NoCall
    <2>. HIDE DEF r
    <2>3. Begin(c, r, "create")
        BY <2>1, Zenon DEF r
    <2>. QED  BY <1>0, <1>1, <2>2, <2>3, BeginInv, Zenon DEF Begin, lockVars
<1>3. CASE Transition(c)
    <2>1. PICK b \in Bookings, k \in TKeys, s \in Statuses, a \in Amounts \cup {0} :
              Begin(c, [NoCall EXCEPT !.op = "transition", !.b = b, !.key = k, !.to = s,
                                      !.amt = a], "lock")
        BY <1>3, Zenon DEF Transition
    <2> DEFINE r == [NoCall EXCEPT !.op = "transition", !.b = b, !.key = k, !.to = s, !.amt = a]
    <2>2. r.b = b /\ r.amt = a /\ r.op = "transition" /\ r.key = k
        BY Zenon DEF NoCall
    <2>. HIDE DEF r
    <2>3. Begin(c, r, "lock")
        BY <2>1, Zenon DEF r
    <2>4. r.key \in TransitionKeys /\ r.op # "confirm" /\ r.op \in {"transition", "confirm"}
        BY <2>2, Zenon DEF TransitionKeys
    <2>. QED  BY <1>0, <1>1, <2>2, <2>3, <2>4, BeginInv, Zenon DEF Begin, lockVars
<1>4. CASE RunInTx(c)
    <2>1. PICK b \in Bookings, k \in TKeys, s \in Statuses, j \in JKeys :
              Begin(c, [NoCall EXCEPT !.op = "confirm", !.b = b, !.key = k, !.to = s,
                                      !.jkey = j], "lock")
        BY <1>4, Zenon DEF RunInTx
    <2> DEFINE r == [NoCall EXCEPT !.op = "confirm", !.b = b, !.key = k, !.to = s, !.jkey = j]
    <2>2. r.b = b /\ r.amt = 0 /\ r.op = "confirm" /\ r.key = k /\ r.jkey = j
        BY Zenon DEF NoCall
    <2>. HIDE DEF r
    <2>3. Begin(c, r, "lock")
        BY <2>1, Zenon DEF r
    <2>4. r.key \in TransitionKeys /\ r.op \in {"transition", "confirm"} /\ r.amt \in Nat
        BY <2>2 DEF TransitionKeys
    <2>. QED  BY <1>0, <2>2, <2>3, <2>4, BeginInv, Zenon DEF Begin, lockVars
<1>5. CASE PostJournal(c)
    <2>1. PICK j \in JKeys :
              \/ \E e \in events :
                    Begin(c, [NoCall EXCEPT !.op = "post", !.b = e.b, !.jkey = j, !.ev = e.id],
                          "jlookup")
              \/ \E b \in Bookings :
                    Begin(c, [NoCall EXCEPT !.op = "plain", !.b = b, !.jkey = j], "jlookup")
        BY <1>5, Zenon DEF PostJournal
    <2>2. ASSUME NEW e \in events,
                 Begin(c, [NoCall EXCEPT !.op = "post", !.b = e.b, !.jkey = j, !.ev = e.id],
                       "jlookup")
          PROVE  BookingInv'
        <3> DEFINE r == [NoCall EXCEPT !.op = "post", !.b = e.b, !.jkey = j, !.ev = e.id]
        <3>1. r.b = e.b /\ r.amt = 0 /\ r.op = "post" /\ r.jkey = j /\ r.ev = e.id
            BY Zenon DEF NoCall
        <3>. HIDE DEF r
        <3>2. Begin(c, r, "jlookup")
            BY <2>2, Zenon DEF r
        <3>3. r.amt \in Nat
            BY <3>1
        <3>4. r.b \in Bookings /\ Known(r.ev, r.b)
            BY <3>1, Zenon DEF BookingInv, Shape, EventRows, Known
        <3>. QED  BY <1>0, <3>1, <3>2, <3>3, <3>4, BeginInv, Zenon DEF Begin, lockVars
    <2>3. ASSUME NEW b \in Bookings,
                 Begin(c, [NoCall EXCEPT !.op = "plain", !.b = b, !.jkey = j], "jlookup")
          PROVE  BookingInv'
        <3> DEFINE r == [NoCall EXCEPT !.op = "plain", !.b = b, !.jkey = j]
        <3>1. r.b = b /\ r.amt = 0 /\ r.op = "plain" /\ r.jkey = j
            BY Zenon DEF NoCall
        <3>. HIDE DEF r
        <3>2. Begin(c, r, "jlookup")
            BY <2>3, Zenon DEF r
        <3>3. r.amt \in Nat
            BY <3>1
        <3>. QED  BY <1>0, <3>1, <3>2, <3>3, BeginInv, Zenon DEF Begin, lockVars
    <2>. QED  BY <2>1, <2>2, <2>3, Zenon
<1>6. CASE SweepNext(c)
    <2>1. PICK b \in list[c] :
              /\ list' = [list EXCEPT ![c] = @ \ {b}]
              /\ call' = [call EXCEPT ![c] =
                    [NoCall EXCEPT !.op = "transition", !.b = b, !.to = Expire,
                                   !.key = <<"expire-booking", b>>]]
        BY <1>6, Zenon DEF SweepNext
    <2> DEFINE r == [NoCall EXCEPT !.op = "transition", !.b = b, !.to = Expire,
                                   !.key = <<"expire-booking", b>>]
    <2>2. r.b = b /\ r.amt = 0 /\ r.op = "transition" /\ r.key = <<"expire-booking", b>>
        BY Zenon DEF NoCall
    <2>. HIDE DEF r
    <2>3. call' = [call EXCEPT ![c] = r]
        BY <2>1, Zenon DEF r
    <2>4. c \in Sweepers /\ b \in Bookings
        BY <1>0, <1>6, Zenon DEF SweepNext
    <2>5. list' \in [Sweepers -> SUBSET Bookings]
        BY <1>0, <2>1, <2>4, Zenon
    <2>6. /\ r.key \in TransitionKeys /\ r.op # "confirm" /\ r.op \in {"transition", "confirm"}
          /\ r.amt \in Nat
        BY <2>2, <2>4 DEF TransitionKeys
    <2>. QED  BY <1>6, <2>2, <2>3, <2>4, <2>5, <2>6, BeginInv, Zenon DEF SweepNext, lockVars
<1>. QED  BY <1>2, <1>3, <1>4, <1>5, <1>6, Zenon

-----------------------------------------------------------------------------
(* The steps of a transaction before its commit.                           *)

\* A step inside a transaction moves one client only: it takes an id of the sequence,
\* the lock of a row, or adds to what that client has pending.
LEMMA Moving ==
    ASSUME BookingAssumption, BookingInv, NEW c \in Clients, NEW l, Goto(c, l),
           UNCHANGED <<due, list, call>>, seq' = seq \/ seq' = seq + 1,
           \/ rowLock' = rowLock
           \/ \E b \in Bookings : /\ rowLock[b] \in {NoClient, c}
                                  /\ rowLock' = [rowLock EXCEPT ![b] = c],
           pend' = pend \/ \E p : pend' = [pend EXCEPT ![c] = p]
    PROVE  OnlyMoves(c) /\ pc'[c] = l /\ call'[c] = call[c]
<1>1. seq' \in Nat /\ seq <= seq'
    BY DEF BookingInv, Shape
<1>2. due' \subseteq Bookings /\ list' \in [Sweepers -> SUBSET Bookings]
    BY Zenon DEF BookingInv, Shape
<1>3. /\ pc' = [d \in Clients |-> pc'[d]] /\ call' = [d \in Clients |-> call'[d]]
      /\ pc'[c] = l /\ call'[c] = call[c]
    BY Zenon DEF BookingInv, Shape, Goto
<1>4. pend' = [d \in Clients |-> pend'[d]] /\ \A d \in Clients \ {c} : pend'[d] = pend[d]
    BY Zenon DEF BookingInv, Shape
<1>5. \A d \in Clients \ {c} : pc'[d] = pc[d] /\ call'[d] = call[d]
    BY Zenon DEF BookingInv, Shape, Goto
<1>6. /\ rowLock' = [b \in Bookings |-> rowLock'[b]]
      /\ \A d \in Clients \ {c} : \A b \in Bookings : rowLock[b] = d => rowLock'[b] = d
    <2>1. rowLock = [b \in Bookings |-> rowLock[b]] /\ NoClient \notin Clients
        BY Zenon DEF BookingInv, Shape, BookingAssumption
    <2>2. ASSUME NEW b \in Bookings, rowLock[b] \in {NoClient, c},
                 rowLock' = [rowLock EXCEPT ![b] = c]
          PROVE  /\ rowLock' = [a \in Bookings |-> rowLock'[a]]
                 /\ \A d \in Clients \ {c} : \A a \in Bookings : rowLock[a] = d => rowLock'[a] = d
        BY <2>1, <2>2, Zenon
    <2>. QED  BY <2>1, <2>2, Zenon
<1>. QED  BY <1>1, <1>2, <1>3, <1>4, <1>5, <1>6, Zenon DEF OnlyMoves

\* What c knows of its transaction it still knows when nothing is committed.
LEMMA Kept ==
    ASSUME NEW c, UNCHANGED <<dbVars, seq>>, call'[c] = call[c], pend'[c] = pend[c],
           rowLock[call[c].b] = c => rowLock'[call[c].b] = c
    PROVE  /\ Holds(c) => Holds(c)'
           /\ Quiet(c) => Quiet(c)'
           /\ Applied(c) => Applied(c)'
           /\ \A i, b : Known(i, b) => Known(i, b)'
           /\ \A n : Pending(c, n) => Pending(c, n)'
           /\ \A n : Fresh(c, n) => Fresh(c, n)'
           /\ \A n : Unlinked(c, n) => Unlinked(c, n)'
<1>1. UNCHANGED <<booking, events, receipts, journals>>
    BY Zenon DEF dbVars
<1>2. Holds(c) => Holds(c)'
    BY <1>1, Zenon DEF Holds
<1>3. Quiet(c) => Quiet(c)'
    BY Zenon DEF Quiet
<1>4. \A i, b : Known(i, b) => Known(i, b)'
    BY <1>1, Zenon DEF Known
<1>5. \A n : Pending(c, n) => Pending(c, n)'
    BY <1>2, Zenon DEF Pending
<1>6. \A n : Fresh(c, n) => Fresh(c, n)'
    BY <1>1, Zenon DEF Fresh
<1>7. \A n : Unlinked(c, n) => Unlinked(c, n)'
    BY <1>1, Zenon DEF Unlinked
<1>8. Receipted(c) => Receipted(c)'
    BY <1>1, Zenon DEF Receipted
<1>9. Applied(c) => Applied(c)'
    BY <1>5, <1>6, <1>7, <1>8, Zenon DEF Applied
<1>. QED  BY <1>2, <1>3, <1>4, <1>5, <1>6, <1>7, <1>9, Zenon

\* A client that only moves on keeps the invariant when it may be at the new place.
LEMMA MoveInv ==
    ASSUME BookingAssumption, BookingInv, NEW c \in Clients, NEW l, Goto(c, l),
           UNCHANGED <<dbVars, due, seq, list, call, pend>>,
           \/ rowLock' = rowLock
           \/ \E b \in Bookings : /\ rowLock[b] \in {NoClient, c}
                                  /\ rowLock' = [rowLock EXCEPT ![b] = c],
           ClientSound(c)'
    PROVE  BookingInv'
<1>1. OnlyMoves(c)
    BY Moving, Zenon
<1>2. ASSUME NEW d \in Clients \ {c} PROVE Apart(c, d)'
    <2>1. pend' = pend /\ Apart(c, d)
        BY Zenon DEF BookingInv
    <2>. QED  BY <2>1, Zenon DEF Apart
<1>. QED  BY <1>1, <1>2, LocalStep, Zenon

\* A client that moves on keeps what it holds.
LEMMA MoveKeeps ==
    ASSUME BookingInv, NEW c \in Clients, NEW l, pc[c] # "idle", Goto(c, l),
           UNCHANGED <<dbVars, due, seq, list, call, pend>>,
           \/ rowLock' = rowLock
           \/ \E b \in Bookings : /\ rowLock[b] \in {NoClient, c}
                                  /\ rowLock' = [rowLock EXCEPT ![b] = c]
    PROVE  /\ pc'[c] = l /\ call'[c] = call[c] /\ pend'[c] = pend[c]
           /\ Holds(c) => Holds(c)'
           /\ Quiet(c) => Quiet(c)'
           /\ Applied(c) => Applied(c)'
           /\ \A i, b : Known(i, b) => Known(i, b)'
<1>1. pc'[c] = l /\ call'[c] = call[c] /\ pend'[c] = pend[c]
    BY Zenon DEF BookingInv, Shape, Goto
<1>2. rowLock[call[c].b] = c => rowLock'[call[c].b] = c
    <2>1. rowLock = [b \in Bookings |-> rowLock[b]]
        BY Zenon DEF BookingInv, Shape
    <2>2. call[c].b \in Bookings
        BY Zenon DEF BookingInv, ClientSound, CallSound
    <2>. QED  BY <2>1, <2>2, Zenon
<1>. QED  BY <1>1, <1>2, Kept, Zenon

\* CreateBooking looks its key up, and a transition takes the lock of its row.
LEMMA LockInv ==
    ASSUME BookingAssumption, BookingInv, NEW c \in Clients, CreateLookup(c) \/ LockRow(c)
    PROVE  BookingInv'
<1>1. CASE CreateLookup(c)
    <2>1. CASE Refuse(c)
        BY <2>1, RefuseInv, Zenon
    <2>2. CASE Goto(c, "insert") /\ UNCHANGED <<dbVars, due, seq, list, lockVars, call, pend>>
        <3>1. pc[c] = "create" /\ rowLock' = rowLock
            BY <1>1, <2>2, Zenon DEF CreateLookup, lockVars
        <3>2. pc[c] # "idle"
            BY <3>1, Zenon
        <3>3. pc'[c] = "insert" /\ call'[c] = call[c] /\ pend'[c] = pend[c]
            BY <2>2, <3>1, <3>2, MoveKeeps, Zenon
        <3>4. pend[c] = NoPend /\ call[c].b \in Bookings /\ call[c].amt \in Nat
            BY <3>1, <3>2, Zenon DEF BookingInv, ClientSound, CallSound, PendSound
        <3>5. ClientSound(c)'
            BY <3>3, <3>4, Zenon DEF ClientSound, CallSound, PendSound, PCs, Posting
        <3>. QED  BY <2>2, <3>1, <3>5, MoveInv, Zenon
    <2>. QED  BY <1>1, <2>1, <2>2, Zenon DEF CreateLookup
<1>2. CASE LockRow(c)
    <2>1. CASE Refuse(c)
        BY <2>1, RefuseInv, Zenon
    <2>2. CASE ~ Refuse(c)
        <3> DEFINE b == call[c].b
        <3>1. pc[c] = "lock"
            BY <1>2, Zenon DEF LockRow
        <3>2. pc[c] # "idle"
            BY <3>1, Zenon
        <3>3. /\ booking[b] # NoRow /\ rowLock[b] = NoClient
              /\ rowLock' = [rowLock EXCEPT ![b] = c]
              /\ Goto(c, "check") /\ UNCHANGED <<dbVars, due, seq, list, call, pend>>
            BY <1>2, <2>2, Zenon DEF LockRow, Continue
        <3>4. /\ pend[c] = NoPend /\ b \in Bookings /\ call[c].amt \in Nat
              /\ call[c].op \in {"transition", "confirm"} /\ call[c].key \in TransitionKeys
              /\ call[c].op = "confirm" => call[c].jkey \in JKeys
            BY <3>1, <3>2, Zenon DEF BookingInv, ClientSound, CallSound, PendSound
        <3>5. pc'[c] = "check" /\ call'[c] = call[c] /\ pend'[c] = pend[c]
            BY <3>2, <3>3, <3>4, MoveKeeps, Zenon
        <3>6. Holds(c)'
            BY <3>3, <3>4, <3>5, Zenon DEF BookingInv, Shape, Holds, dbVars
        <3>7. CallSound(c)'
            BY <3>4, <3>5, Zenon DEF CallSound, PCs, Posting
        <3>8. PendSound(c)'
            BY <3>4, <3>5, <3>6, Zenon DEF PendSound, Posting
        <3>. QED  BY <3>3, <3>4, <3>7, <3>8, MoveInv, Zenon DEF ClientSound
    <2>. QED  BY <2>1, <2>2, Zenon
<1>. QED  BY <1>1, <1>2, Zenon

\* The transition is answered with an event of the booking.
LEMMA AnswerInv ==
    ASSUME BookingAssumption, BookingInv, NEW c \in Clients, NEW i, pc[c] = "check",
           Answer(c, i), Known(i, call[c].b)
    PROVE  BookingInv'
<1> DEFINE p == [NoPend EXCEPT !.got = i]
<1>1. pc[c] # "idle"
    BY Zenon
<1>2. /\ pend[c] = NoPend /\ Holds(c) /\ call[c].b \in Bookings /\ call[c].amt \in Nat
      /\ call[c].op \in {"transition", "confirm"}
      /\ call[c].op = "confirm" => call[c].jkey \in JKeys
    BY <1>1, Zenon DEF BookingInv, ClientSound, CallSound, PendSound
<1>3. /\ p.got = i /\ p.row = NoRow /\ p.events = {} /\ p.receipts = {} /\ p.journals = {}
      /\ IsWrites(p)
    BY NoPendFields, WritesExcept, Zenon DEF NoPend
<1>4. pend' = [pend EXCEPT ![c] = p]
    BY <1>2, Zenon DEF Answer
<1>. HIDE DEF p
<1>5. pend'[c] = p
    BY <1>4, Zenon DEF BookingInv, Shape
<1>6. /\ Goto(c, After(c)) /\ UNCHANGED <<dbVars, due, seq, list, call>> /\ rowLock' = rowLock
      /\ UNCHANGED dbVars
    BY Zenon DEF Answer, Continue, lockVars
<1>7. OnlyMoves(c) /\ pc'[c] = After(c) /\ call'[c] = call[c]
    BY <1>4, <1>6, Moving, Zenon
<1>8. Quiet(c)' /\ Holds(c)' /\ Known(pend[c].got, call[c].b)'
    <2>1. Quiet(c)' /\ Holds(c)'
        BY <1>2, <1>3, <1>5, <1>6, <1>7, Zenon DEF Quiet, Holds, dbVars
    <2>2. events' = events /\ pend'[c].got = i
        BY <1>3, <1>5, <1>6, Zenon DEF dbVars
    <2>3. Known(pend[c].got, call[c].b)'
        BY <1>7, <2>2, Zenon DEF Known
    <2>. QED  BY <2>1, <2>3, Zenon
<1>9. ClientSound(c)'
    <2>1. CallSound(c)'
        BY <1>2, <1>7, Zenon DEF CallSound, After, PCs, Posting
    <2>2. PendSound(c)'
        BY <1>2, <1>7, <1>8, Zenon DEF PendSound, After, Posting, Known
    <2>. QED  BY <2>1, <2>2, Zenon DEF ClientSound
<1>10. \A d \in Clients \ {c} : Apart(c, d)'
    BY <1>3, <1>5, Zenon DEF Apart
<1>. QED  BY <1>6, <1>7, <1>9, <1>10, LocalStep, Zenon

\* What the checks of a transition decide: a replay, a refusal or a new event.
LEMMA CheckInv ==
    ASSUME BookingAssumption, BookingInv, NEW c \in Clients, Check(c)
    PROVE  BookingInv'
<1> DEFINE b == call[c].b
<1>1. pc[c] = "check" /\ pc[c] # "idle"
    BY Zenon DEF Check
<1>2. pend[c] = NoPend /\ Holds(c) /\ b \in Bookings /\ booking[b] # NoRow
    BY <1>1, Zenon DEF BookingInv, ClientSound, CallSound, PendSound, Holds
<1>3. NoPend.row = NoRow /\ NoPend.events = {}
    BY Zenon DEF NoPend
<1>4. SeenEvents(c) = events /\ Row(c) = booking[b]
    BY <1>2, <1>3, Zenon DEF SeenEvents, Row
<1>5. ASSUME NEW r \in receipts, ReceiptMatches(r, call[c]), Answer(c, r.ev)
      PROVE  BookingInv'
    <2>1. Known(r.ev, b)
        <3>1. r.b = b
            BY <1>5, Zenon DEF ReceiptMatches
        <3>2. PICK e \in events : e.id = r.ev /\ e.b = r.b
            BY <1>5, Zenon DEF BookingInv, ReceiptsSound
        <3>. QED  BY <3>1, <3>2, Zenon DEF Known
    <2>. QED  BY <1>1, <1>5, <2>1, AnswerInv, Zenon
<1>6. ASSUME Arrived(c), Answer(c, LatestEvent(c).id) PROVE BookingInv'
    <2> DEFINE mine == {e \in SeenEvents(c) : e.b = b}
    <2>1. mine # {} /\ mine = Mine(b)
        BY <1>4, <1>6, Zenon DEF Arrived, Mine
    <2>2. \E e \in mine : \A f \in mine : f.id <= e.id
        BY <1>2, <2>1, Zenon DEF BookingInv, Walk, StandsAt, Newest
    <2>3. LatestEvent(c) \in mine
        BY <2>2, Zenon DEF LatestEvent
    <2>4. Known(LatestEvent(c).id, b)
        BY <1>4, <2>3, Zenon DEF Known
    <2>. QED  BY <1>1, <1>6, <2>4, AnswerInv, Zenon
<1>7. ASSUME CanTransition(Row(c).status, call[c].to), Continue(c, "write"),
             UNCHANGED <<lockVars, pend>>
      PROVE  BookingInv'
    <2>1. Goto(c, "write") /\ UNCHANGED <<dbVars, due, seq, list, call, pend>> /\ rowLock' = rowLock
        BY <1>7, Zenon DEF Continue, lockVars
    <2>2. /\ pc'[c] = "write" /\ call'[c] = call[c] /\ pend'[c] = pend[c]
          /\ Holds(c)' /\ booking' = booking
        BY <1>1, <1>2, <2>1, MoveKeeps, Zenon DEF dbVars
    <2>3. /\ call[c].amt \in Nat
          /\ call[c].op \in {"transition", "confirm"} /\ call[c].key \in TransitionKeys
          /\ call[c].op = "confirm" => call[c].jkey \in JKeys
        BY <1>1, Zenon DEF BookingInv, ClientSound, CallSound
    <2>4. CallSound(c)'
        BY <1>2, <2>2, <2>3, Zenon DEF CallSound, PCs, Posting
    <2>5. PendSound(c)'
        BY <1>2, <1>4, <1>7, <2>2, Zenon DEF PendSound, Posting
    <2>. QED  BY <2>1, <2>4, <2>5, MoveInv, Zenon DEF ClientSound
<1>8. CASE Refuse(c)
    BY <1>8, RefuseInv, Zenon
<1>. QED  BY <1>5, <1>6, <1>7, <1>8, Zenon DEF Check

\* An uncommitted event is a new one, or a committed one with its journal.
LEMMA PendingKind ==
    ASSUME BookingInv, NEW d \in Clients, NEW m \in pend[d].events
    PROVE  Pending(d, m) /\ (Fresh(d, m) \/ Old(d, m)) /\ call[d].b \in Bookings
<1>1. Quiet(d) \/ pend[d] = NoPend \/ \E n : Pending(d, n) /\ (Fresh(d, n) \/ Old(d, n))
    BY Zenon DEF BookingInv, ClientSound, CallSound, PendSound, PCs, Posting, Applied
<1>2. PICK n : Pending(d, n) /\ (Fresh(d, n) \/ Old(d, n))
    BY <1>1, NoPendFields, Zenon DEF Quiet
<1>3. m = n
    BY <1>2, Zenon DEF Pending
<1>. QED  BY <1>2, <1>3, Zenon DEF Pending, EventRows

\* The ids of uncommitted events are taken.
LEMMA PendingIds ==
    ASSUME BookingInv, NEW d \in Clients, NEW m \in pend[d].events
    PROVE  m.id \in Nat /\ m.id <= seq
<1>1. Pending(d, m) /\ (Fresh(d, m) \/ Old(d, m))
    BY PendingKind, Zenon
<1>. QED  BY <1>1, Zenon DEF Pending, EventRows, Fresh, Old, Same, BookingInv, IdsSound

\* The booking moves on and its event is inserted, both uncommitted.
LEMMA WriteInv ==
    ASSUME BookingAssumption, BookingInv, NEW c \in Clients, Write(c)
    PROVE  BookingInv'
<1>0. PICK n : n = InsertEvent(c)
    BY Zenon
<1> DEFINE b == call[c].b
           row == UpdateBookingTransition(c)
           p == [NoPend EXCEPT !.row = row, !.events = {n}, !.got = seq + 1]
<1>1. pc[c] = "write" /\ pc[c] # "idle"
    BY Zenon DEF Write
<1>2. /\ pend[c] = NoPend /\ Holds(c) /\ b \in Bookings /\ call[c].amt \in Nat
      /\ call[c].op \in {"transition", "confirm"} /\ call[c].key \in TransitionKeys
      /\ call[c].op = "confirm" => call[c].jkey \in JKeys
      /\ CanTransition(booking[b].status, call[c].to)
    BY <1>1, Zenon DEF BookingInv, ClientSound, CallSound, PendSound
<1>3. /\ NoPend.row = NoRow
      /\ p.got = seq + 1 /\ p.row = row /\ p.events = {n} /\ p.receipts = {} /\ p.journals = {}
      /\ IsWrites(p)
    <2> DEFINE q == [[[NoPend EXCEPT !.row = row] EXCEPT !.events = {n}] EXCEPT !.got = seq + 1]
    <2>1. p = q
        BY Zenon DEF NoPend
    <2>2. IsWrites(q)
        BY NoPendFields, WritesExcept, Zenon
    <2>. QED  BY <2>1, <2>2, Zenon DEF NoPend
<1>4. Row(c) = booking[b]
    BY <1>2, <1>3, Zenon DEF Row
<1>5. booking[b] \in Rows
    BY <1>2, Zenon DEF Holds, BookingInv, Shape
<1>6. booking[b].status \in Statuses /\ call[c].to \in Statuses
    BY <1>2 DEF CanTransition, Statuses
<1>7. row \in Rows /\ row.status = call[c].to /\ row.journal = booking[b].journal
    BY <1>2, <1>4, <1>5, <1>6, Zenon DEF UpdateBookingTransition, Rows
<1>8. /\ n \in EventRows /\ n.id = seq + 1 /\ n.b = b /\ n.from = booking[b].status
      /\ n.to = call[c].to /\ n.journal = "none" /\ n.key = call[c].key
    BY <1>0, <1>2, <1>4, <1>6 DEF InsertEvent, EventRows, BookingInv, Shape
<1>9. pend' = [pend EXCEPT ![c] = p]
    BY <1>0, <1>2, Zenon DEF Write
<1>10. /\ UNCHANGED dbVars /\ UNCHANGED <<due, list, call>> /\ rowLock' = rowLock
       /\ seq' = seq + 1 /\ Goto(c, "receipt")
    BY Zenon DEF Write, lockVars
<1>. HIDE DEF row, p
<1>11. OnlyMoves(c) /\ pc'[c] = "receipt" /\ call'[c] = call[c]
    BY <1>9, <1>10, Moving, Zenon
<1>12. pend'[c] = p /\ booking' = booking /\ events' = events
    BY <1>9, <1>10, Zenon DEF BookingInv, Shape, dbVars
<1>13. Pending(c, n)' /\ Unlinked(c, n)'
    BY <1>2, <1>3, <1>7, <1>8, <1>10, <1>11, <1>12, Zenon DEF Pending, Unlinked, Holds
<1>14. Fresh(c, n)'
    <2>1. n.id <= seq' /\ \A e \in events' : e.id # n.id /\ (e.b = b => e.id < n.id)
        BY <1>8, <1>10, <1>12 DEF BookingInv, Shape, IdsSound, EventRows
    <2>2. CanTransition(n.from, n.to)
        BY <1>2, <1>8, Zenon
    <2>. QED  BY <1>3, <1>7, <1>8, <1>11, <1>12, <2>1, <2>2, Zenon DEF Fresh
<1>15. ClientSound(c)'
    <2>1. CallSound(c)'
        BY <1>2, <1>11, Zenon DEF CallSound, PCs, Posting
    <2>2. pend'[c].receipts = {} /\ n \in pend'[c].events
        BY <1>3, <1>12, Zenon
    <2>3. PendSound(c)'
        BY <1>11, <1>13, <1>14, <2>2, Zenon DEF PendSound, Posting
    <2>. QED  BY <2>1, <2>3, Zenon DEF ClientSound
<1>16. ASSUME NEW d \in Clients \ {c} PROVE Apart(c, d)'
    <2>1. pend'[d] = pend[d]
        BY <1>11, Zenon DEF OnlyMoves
    <2>2. \A m \in pend[d].events : m.id # n.id
        BY <1>8, PendingIds DEF BookingInv, Shape
    <2>. QED  BY <1>3, <1>12, <2>1, <2>2, Zenon DEF Apart
<1>. QED  BY <1>10, <1>11, <1>15, <1>16, LocalStep, Zenon

\* The receipt of the key is inserted, or another transaction has taken the key.
LEMMA InsertReceiptInv ==
    ASSUME BookingAssumption, BookingInv, NEW c \in Clients, InsertReceipt(c)
    PROVE  BookingInv'
<1>1. CASE Refuse(c)
    BY <1>1, RefuseInv, Zenon
<1>2. CASE ~ Refuse(c)
    <2>0. PICK r : r = [key |-> call[c].key, b |-> call[c].b, to |-> call[c].to,
                        amt |-> call[c].amt, ev |-> pend[c].got]
        BY Zenon
    <2> DEFINE b == call[c].b
               p == [pend[c] EXCEPT !.receipts = {r}]
    <2>1. pc[c] = "receipt" /\ pc[c] # "idle"
        BY Zenon DEF InsertReceipt
    <2>2. /\ pend' = [pend EXCEPT ![c].receipts = {r}]
          /\ Goto(c, After(c)) /\ UNCHANGED <<due, seq, list, call>> /\ rowLock' = rowLock
          /\ UNCHANGED dbVars
          /\ \A s \in receipts : s.key # call[c].key
          /\ \A d \in Clients \ {c} : \A s \in pend[d].receipts : s.key # call[c].key
        BY <1>2, <2>0, Zenon DEF InsertReceipt, Continue, lockVars
    <2>3. r.key = call[c].key /\ r.b = b /\ r.ev = pend[c].got
        BY <2>0, Zenon
    <2>4. PICK n \in pend[c].events : Pending(c, n) /\ Fresh(c, n) /\ Unlinked(c, n)
        BY <2>1, Zenon DEF BookingInv, ClientSound, PendSound
    <2>5. /\ b \in Bookings /\ call[c].amt \in Nat /\ call[c].op \in {"transition", "confirm"}
          /\ call[c].op = "confirm" => call[c].jkey \in JKeys
        BY <2>1, Zenon DEF BookingInv, ClientSound, CallSound
    <2>6. IsWrites(p)
        BY <2>4, WritesExcept, Zenon DEF Pending
    <2>7. /\ p.receipts = {r} /\ p.row = pend[c].row /\ p.events = pend[c].events
          /\ p.journals = pend[c].journals /\ p.got = pend[c].got
        BY <2>4, Zenon DEF Pending, IsWrites
    <2>8. pend' = [pend EXCEPT ![c] = p]
        BY <2>2, Zenon
    <2>. HIDE DEF p
    <2>9. OnlyMoves(c) /\ pc'[c] = After(c) /\ call'[c] = call[c]
        BY <2>2, <2>8, Moving, Zenon
    <2>10. /\ pend'[c] = p /\ booking' = booking /\ events' = events /\ receipts' = receipts
           /\ seq' = seq
        BY <2>2, <2>8, Zenon DEF BookingInv, Shape, dbVars
    <2>11. Pending(c, n)' /\ Unlinked(c, n)' /\ Fresh(c, n)'
        BY <2>2, <2>4, <2>6, <2>7, <2>9, <2>10, Zenon DEF Pending, Unlinked, Fresh, Holds
    <2>12. Receipted(c)'
        BY <2>2, <2>3, <2>7, <2>9, <2>10, Zenon DEF Receipted
    <2>13. Applied(c)'
        <3>1. n \in pend'[c].events
            BY <2>7, <2>10, Zenon
        <3>. QED  BY <2>11, <2>12, <3>1, Zenon DEF Applied
    <2>14. CallSound(c)'
        BY <2>5, <2>9, Zenon DEF CallSound, After, PCs, Posting
    <2>15. PendSound(c)'
        BY <2>5, <2>9, <2>13, Zenon DEF PendSound, After, Posting
    <2>16. ASSUME NEW d \in Clients \ {c} PROVE Apart(c, d)'
        <3>1. Apart(c, d) /\ pend'[d] = pend[d]
            BY <2>9, Zenon DEF BookingInv, OnlyMoves
        <3>2. \A s \in pend'[d].receipts : r.key # s.key
            BY <2>2, <2>3, <3>1, Zenon
        <3>. QED  BY <2>7, <2>10, <3>1, <3>2, Zenon DEF Apart
    <2>. QED  BY <2>2, <2>9, <2>14, <2>15, <2>16, LocalStep, Zenon DEF ClientSound
<1>. QED  BY <1>1, <1>2, Zenon

\* The look-ups and locks of PostJournal.
LEMMA PostingInv ==
    ASSUME BookingAssumption, BookingInv, NEW c \in Clients,
           \/ JLookup(c) \/ JIdem(c) \/ JRecheck(c) \/ JEvent(c) \/ JRow(c) \/ JBalance(c)
    PROVE  BookingInv'
<1>1. pc[c] \in Posting /\ pc[c] # "idle"
    BY Zenon DEF JLookup, JIdem, JRecheck, JEvent, JRow, JBalance, Posting
<1>2. /\ call[c].b \in Bookings /\ call[c].amt \in Nat /\ call[c].jkey \in JKeys
      /\ call[c].op \in {"confirm", "post", "plain"}
      /\ pc[c] \in {"jevent", "jrow"} => call[c].op # "plain"
    BY <1>1, Zenon DEF BookingInv, ClientSound, CallSound
<1>3. \/ call[c].op = "plain" /\ pend[c] = NoPend
      \/ call[c].op = "post" /\ pend[c] = NoPend /\ Known(call[c].ev, call[c].b)
      \/ call[c].op = "confirm" /\ Quiet(c) /\ Holds(c) /\ Known(pend[c].got, call[c].b)
      \/ call[c].op = "confirm" /\ Applied(c)
    BY <1>1, Zenon DEF BookingInv, ClientSound, PendSound
<1>4. ASSUME NEW l \in Posting \cup {"commit"},
             l \in {"jevent", "jrow", "jlink"} => call[c].op # "plain",
             Continue(c, l), pend' = pend,
             \/ rowLock' = rowLock
             \/ /\ rowLock[call[c].b] \in {NoClient, c}
                /\ rowLock' = [rowLock EXCEPT ![call[c].b] = c]
      PROVE  BookingInv'
    <2>1. /\ Goto(c, l) /\ UNCHANGED <<dbVars, due, seq, list, call, pend>>
          /\ \/ rowLock' = rowLock
             \/ \E b \in Bookings : /\ rowLock[b] \in {NoClient, c}
                                    /\ rowLock' = [rowLock EXCEPT ![b] = c]
        BY <1>2, <1>4, Zenon DEF Continue
    <2>2. /\ pc'[c] = l /\ call'[c] = call[c] /\ pend'[c] = pend[c]
          /\ Holds(c) => Holds(c)'
          /\ Quiet(c) => Quiet(c)'
          /\ Applied(c) => Applied(c)'
          /\ \A i, b : Known(i, b) => Known(i, b)'
        BY <1>1, <2>1, MoveKeeps, Zenon
    <2>3. CallSound(c)'
        BY <1>2, <1>4, <2>2, Zenon DEF CallSound, PCs, Posting
    <2>4. pend[c] = NoPend => Quiet(c)'
        BY <2>2, NothingPending, Zenon
    <2>5. Known(call[c].ev, call[c].b) => Known(call[c].ev, call[c].b)'
        <3>1. events' = events
            BY <2>1, Zenon DEF dbVars
        <3>. QED  BY <2>2, <3>1, Zenon DEF Known
    <2>6. Known(pend[c].got, call[c].b) => Known(pend[c].got, call[c].b)'
        <3>1. events' = events
            BY <2>1, Zenon DEF dbVars
        <3>. QED  BY <2>2, <3>1, Zenon DEF Known
    <2>7. \/ call'[c].op = "plain" /\ pend'[c] = NoPend
          \/ call'[c].op = "post" /\ pend'[c] = NoPend /\ Known(call[c].ev, call[c].b)'
          \/ call'[c].op = "confirm" /\ Quiet(c)' /\ Holds(c)' /\ Known(pend[c].got, call[c].b)'
          \/ call'[c].op = "confirm" /\ Applied(c)'
        BY <1>3, <2>2, <2>5, <2>6, Zenon
    <2>8. Quiet(c)' \/ Applied(c)'
        BY <2>2, <2>4, <2>7, Zenon
    <2>9. l \notin {"idle", "create", "insert", "lock", "check", "write", "receipt"}
        BY <1>4, Zenon DEF Posting
    <2>10. PendSound(c)'
        BY <2>2, <2>7, <2>8, <2>9, Zenon DEF PendSound
    <2>. QED  BY <2>1, <2>3, <2>10, MoveInv, Zenon DEF ClientSound
<1>5. CASE Refuse(c)
    BY <1>5, RefuseInv, Zenon
<1>6. CASE JLookup(c) \/ JIdem(c) \/ JRecheck(c)
    <2>1. ASSUME Replay(c) PROVE BookingInv'
        <3>1. Refuse(c) \/ (Continue(c, "commit") /\ pend' = pend /\ rowLock' = rowLock)
            BY <2>1, Zenon DEF Replay, lockVars
        <3>. QED  BY <1>4, <1>5, <3>1, Zenon
    <2>2. CASE \E l \in {"jidem", "jrecheck", "jevent", "jbal"} :
                   /\ Continue(c, l) /\ pend' = pend /\ rowLock' = rowLock
                   /\ l = "jevent" => call[c].op # "plain"
        BY <1>4, <2>2, Zenon DEF Posting
    <2>. QED  BY <1>6, <2>1, <2>2, Zenon DEF JLookup, JIdem, JRecheck, Links, lockVars
<1>7. CASE JEvent(c) \/ JRow(c) \/ JBalance(c)
    BY <1>2, <1>4, <1>5, <1>7, Zenon DEF JEvent, JRow, JBalance, Links, Posting, lockVars
<1>. QED  BY <1>6, <1>7, Zenon

\* The event a journal names: one that is committed, or the one its own transaction has
\* inserted.
LEMMA EventThere ==
    ASSUME BookingAssumption, BookingInv, NEW c \in Clients, pc[c] = "jlink"
    PROVE  /\ TheEvent(c).id = EventOf(c)
           /\ \/ TheEvent(c) \in events /\ TheEvent(c).b = call[c].b /\ Quiet(c)
              \/ TheEvent(c) \in pend[c].events /\ Applied(c)
<1>1. pc[c] \in Posting
    BY Zenon DEF Posting
<1>2. call[c].op # "plain"
    BY <1>1, Zenon DEF BookingInv, ClientSound, CallSound
<1>3. ASSUME Quiet(c), Known(EventOf(c), call[c].b)
      PROVE  /\ TheEvent(c) \in events /\ TheEvent(c).b = call[c].b
             /\ TheEvent(c).id = EventOf(c)
    <2>1. SeenEvents(c) = events
        BY <1>3, Zenon DEF Quiet, SeenEvents
    <2>2. PICK e \in events : e.id = EventOf(c) /\ e.b = call[c].b
        BY <1>3, Zenon DEF Known
    <2>3. TheEvent(c) \in events /\ TheEvent(c).id = EventOf(c)
        BY <2>1, <2>2, Zenon DEF TheEvent
    <2>4. TheEvent(c) = e
        BY <2>2, <2>3, Zenon DEF BookingInv, IdsSound
    <2>. QED  BY <2>2, <2>3, <2>4, Zenon
<1>4. CASE call[c].op = "post" /\ pend[c] = NoPend /\ Known(call[c].ev, call[c].b)
    <2>1. EventOf(c) = call[c].ev
        BY <1>4, Zenon DEF EventOf
    <2>2. Quiet(c)
        BY <1>4, NoPendFields, Zenon DEF Quiet
    <2>. QED  BY <1>3, <1>4, <2>1, <2>2, Zenon
<1>5. CASE call[c].op = "confirm" /\ Quiet(c) /\ Known(pend[c].got, call[c].b)
    <2>1. EventOf(c) = pend[c].got
        BY <1>5, Zenon DEF EventOf
    <2>. QED  BY <1>3, <1>5, <2>1, Zenon
<1>6. CASE call[c].op = "confirm" /\ Applied(c)
    <2>1. EventOf(c) = pend[c].got
        BY <1>6, Zenon DEF EventOf
    <2>2. PICK n \in pend[c].events : Pending(c, n) /\ Fresh(c, n)
        BY <1>6, Zenon DEF Applied
    <2>3. n \in SeenEvents(c) /\ n.id = EventOf(c)
        BY <2>1, <2>2, Zenon DEF SeenEvents, Fresh
    <2>4. TheEvent(c) \in SeenEvents(c) /\ TheEvent(c).id = n.id
        BY <2>3, Zenon DEF TheEvent
    <2>5. TheEvent(c) \notin events
        BY <2>2, <2>4, Zenon DEF Fresh
    <2>. QED  BY <1>6, <2>3, <2>4, <2>5, Zenon DEF SeenEvents
<1>. QED  BY <1>1, <1>2, <1>4, <1>5, <1>6, Zenon DEF BookingInv, ClientSound, PendSound

\* linkJournalToEventAndBooking: both links are set, uncommitted, once neither was set.
LEMMA JLinkInv ==
    ASSUME BookingAssumption, BookingInv, NEW c \in Clients, JLink(c)
    PROVE  BookingInv'
<1>1. CASE Refuse(c)
    BY <1>1, RefuseInv, Zenon
<1>2. CASE ~ Refuse(c)
    <2>0. PICK n : n = LinkEventJournal(c)
        BY Zenon
    <2> DEFINE b == call[c].b
               e == TheEvent(c)
               row == LinkBookingJournal(c)
               k == call[c].jkey
               js == {[key |-> call[c].jkey, ev |-> EventOf(c)]}
               p == [pend[c] EXCEPT !.events = {n}, !.row = row, !.journals = js]
    <2>1. pc[c] = "jlink" /\ pc[c] \in Posting /\ pc[c] # "idle"
        BY Zenon DEF JLink, Posting
    <2>2. /\ e.journal = "none" /\ Row(c).journal = "none"
          /\ rowLock[b] \in {NoClient, c} /\ rowLock' = [rowLock EXCEPT ![b] = c]
          /\ pend' = [pend EXCEPT ![c].events = {n}, ![c].row = row, ![c].journals = js]
          /\ Goto(c, "commit") /\ UNCHANGED <<due, seq, list, call>> /\ UNCHANGED dbVars
        BY <1>2, <2>0, Zenon DEF JLink, Continue
    <2>3. b \in Bookings /\ call[c].amt \in Nat /\ k \in JKeys
        BY <2>1, Zenon DEF BookingInv, ClientSound, CallSound
    <2>4. /\ e.id = EventOf(c)
          /\ \/ e \in events /\ e.b = b /\ Quiet(c)
             \/ e \in pend[c].events /\ Applied(c)
        BY <2>1, EventThere, Zenon
    <2>5. IsWrites(pend[c])
        BY <2>4, Zenon DEF Quiet, Applied, Pending
    <2>6. e \in EventRows /\ e.b = b
        BY <2>4, Zenon DEF BookingInv, Shape, Applied, Pending
    <2>7. booking[b] # NoRow /\ booking[b] \in Rows
        <3>1. booking[b] # NoRow
            BY <2>4, Zenon DEF BookingInv, IdsSound, Applied, Pending, Holds
        <3>. QED  BY <2>3, <3>1, Zenon DEF BookingInv, Shape
    <2>8. Row(c) \in Rows
        BY <2>4, <2>7, RowsThere, Zenon DEF Row, Quiet, Applied, Pending
    <2>9. /\ n \in EventRows /\ n.journal = k /\ n.id = e.id /\ n.b = e.b /\ n.from = e.from
          /\ n.to = e.to /\ n.key = e.key
        <3>. HIDE DEF e
        <3>1. n = [e EXCEPT !.journal = k]
            BY <2>0, Zenon DEF LinkEventJournal, e
        <3>. HIDE DEF k
        <3>. QED  BY <2>3, <2>6, <3>1, Zenon DEF EventRows
    <2>10. row \in Rows /\ row.journal = k /\ row.status = Row(c).status
        <3>1. row = [Row(c) EXCEPT !.journal = k]
            BY Zenon DEF LinkBookingJournal
        <3>. HIDE DEF row, k
        <3>. QED  BY <2>3, <2>8, <3>1, Zenon DEF Rows
    <2>. HIDE DEF e, row, k
    <2>11. js = {[key |-> k, ev |-> n.id]}
        BY <2>4, <2>9, Zenon DEF k
    <2>. HIDE DEF js
    <2>12. /\ p.events = {n} /\ p.row = row /\ p.journals = js
           /\ p.receipts = pend[c].receipts /\ p.got = pend[c].got
        BY <2>5, Zenon DEF IsWrites
    <2>13. IsWrites(p)
        <3> DEFINE q == [[[pend[c] EXCEPT !.events = {n}] EXCEPT !.row = row] EXCEPT !.journals = js]
        <3>1. p = q
            BY Zenon
        <3>2. IsWrites(q)
            BY <2>5, WritesExcept, Zenon
        <3>. QED  BY <3>1, <3>2, Zenon
    <2>14. pend' = [pend EXCEPT ![c] = p]
        BY <2>2, Zenon
    <2>. HIDE DEF p
    <2>15. OnlyMoves(c) /\ pc'[c] = "commit" /\ call'[c] = call[c]
        BY <2>2, <2>3, <2>14, Moving, Zenon
    <2>16. /\ pend'[c] = p /\ booking' = booking /\ events' = events /\ receipts' = receipts
           /\ seq' = seq /\ rowLock'[b] = c
        BY <2>2, <2>3, <2>14, Zenon DEF BookingInv, Shape, dbVars
    <2>17. Pending(c, n)'
        BY <2>6, <2>7, <2>9, <2>10, <2>12, <2>13, <2>15, <2>16, Zenon DEF Pending, Holds
    <2>18. ASSUME e \in events, e.b = b, Quiet(c)
          PROVE  /\ Linked(c, n)' /\ (Old(c, n)' \/ (Fresh(c, n)' /\ Receipted(c)'))
                 /\ \A d \in Clients \ {c} : Apart(c, d)'
        <3>1. Row(c) = booking[b] /\ pend[c].receipts = {}
            BY <2>18, Zenon DEF Row, Quiet
        <3>2. Linked(c, n)'
            BY <2>2, <2>3, <2>9, <2>10, <2>11, <2>12, <2>15, <2>16, <3>1, Zenon DEF Linked, k
        <3>3. Old(c, n)'
            <4>1. Same(e, n)
                BY <2>9, Zenon DEF Same
            <4>. QED  BY <2>2, <2>10, <2>12, <2>15, <2>16, <2>18, <3>1, <4>1, Zenon DEF Old
        <3>4. ASSUME NEW d \in Clients \ {c}, NEW m \in pend[d].events, m.id = n.id PROVE FALSE
            <4>1. Pending(d, m) /\ (Fresh(d, m) \/ Old(d, m)) /\ d \in Clients
                BY PendingKind, Zenon
            <4>2. Old(d, m)
                BY <2>9, <2>18, <3>4, <4>1, Zenon DEF Fresh
            <4>3. PICK f \in events : Same(f, m)
                BY <4>2, Zenon DEF Old
            <4>4. f = e
                BY <2>9, <2>18, <3>4, <4>3, Zenon DEF Same, BookingInv, IdsSound
            <4>5. rowLock[b] = d
                BY <2>18, <4>1, <4>3, <4>4, Zenon DEF Same, Pending, Holds
            <4>. QED  BY <2>2, <4>1, <4>5, Zenon DEF BookingAssumption
        <3>5. ASSUME NEW d \in Clients \ {c} PROVE Apart(c, d)'
            <4>1. pend'[d] = pend[d]
                BY <2>15, Zenon DEF OnlyMoves
            <4>. QED  BY <2>12, <2>16, <3>1, <3>4, <4>1, Zenon DEF Apart
        <3>. QED  BY <3>2, <3>3, <3>5, Zenon
    <2>19. ASSUME e \in pend[c].events, Applied(c)
          PROVE  /\ Linked(c, n)' /\ (Old(c, n)' \/ (Fresh(c, n)' /\ Receipted(c)'))
                 /\ \A d \in Clients \ {c} : Apart(c, d)'
        <3>1. PICK m \in pend[c].events :
                  Pending(c, m) /\ Fresh(c, m) /\ Receipted(c) /\ Unlinked(c, m)
            BY <2>19, Zenon DEF Applied
        <3>2. e = m
            BY <2>19, <3>1, Zenon DEF Pending
        <3>3. Row(c) = pend[c].row
            BY <3>1, RowsThere, Zenon DEF Row, Pending
        <3>4. Linked(c, n)'
            BY <2>2, <2>3, <2>9, <2>10, <2>11, <2>12, <2>15, <2>16, <3>1, <3>3, Zenon
               DEF Linked, Unlinked, k
        <3>5. Fresh(c, n)'
            BY <2>9, <2>10, <2>12, <2>15, <2>16, <3>1, <3>2, <3>3, Zenon DEF Fresh
        <3>6. Receipted(c)'
            BY <2>12, <2>15, <2>16, <3>1, Zenon DEF Receipted
        <3>7. ASSUME NEW d \in Clients \ {c} PROVE Apart(c, d)'
            <4>1. pend'[d] = pend[d] /\ Apart(c, d)
                BY <2>15, Zenon DEF OnlyMoves, BookingInv
            <4>. QED  BY ZenonT(30), <2>9, <2>12, <2>16, <2>19, <4>1 DEF Apart
        <3>. QED  BY <3>4, <3>5, <3>6, <3>7, Zenon
    <2>20. /\ Linked(c, n)' /\ (Old(c, n)' \/ (Fresh(c, n)' /\ Receipted(c)'))
           /\ \A d \in Clients \ {c} : Apart(c, d)'
        BY <2>4, <2>18, <2>19, Zenon
    <2>21. CallSound(c)'
        BY <2>3, <2>15, Zenon DEF CallSound, PCs, Posting
    <2>22. n \in pend'[c].events
        BY <2>12, <2>16, Zenon
    <2>23. PendSound(c)'
        BY <2>15, <2>17, <2>20, <2>22, Zenon DEF PendSound, Posting
    <2>. QED  BY <2>2, <2>15, <2>20, <2>21, <2>23, LocalStep, Zenon DEF ClientSound
<1>. QED  BY <1>1, <1>2, Zenon

-----------------------------------------------------------------------------
(* The steps that change committed rows.                                   *)

\* A booking is created: it has no events and no journal.
LEMMA CreateInsertInv ==
    ASSUME BookingAssumption, BookingInv, NEW c \in Clients, CreateInsert(c)
    PROVE  BookingInv'
<1>0. PICK b : b = call[c].b
    BY Zenon
<1> DEFINE row == InsertBooking(c)
<1>1. pc[c] = "insert" /\ pc[c] # "idle" /\ EndTx(c) /\ UNCHANGED <<due, seq, list>>
      /\ UNCHANGED <<events, receipts, journals>>
    BY Zenon DEF CreateInsert
<1>2. CASE booking[b] # NoRow
    <2>1. UNCHANGED dbVars
        BY <1>0, <1>1, <1>2, Zenon DEF CreateInsert, dbVars
    <2>. QED  BY <1>1, <2>1, EndInv, Zenon
<1>3. CASE booking[b] = NoRow
    <2>1. booking' = [booking EXCEPT ![b] = row]
        BY <1>0, <1>3, Zenon DEF CreateInsert
    <2>2. b \in Bookings /\ call[c].amt \in Nat
        BY <1>0, <1>1, Zenon DEF BookingInv, ClientSound, CallSound
    <2>3. row \in Rows /\ row.status = Initial /\ row.journal = "none"
        BY <2>2, Zenon DEF InsertBooking, NoRow, Rows, Statuses
    <2>. HIDE DEF row
    <2>4. booking \in [Bookings -> Rows \cup {NoRow}]
        BY Zenon DEF BookingInv, Shape
    <2>5. /\ booking' \in [Bookings -> Rows \cup {NoRow}] /\ booking'[b] = row
          /\ \A a \in Bookings : a # b => booking'[a] = booking[a]
        BY <2>1, <2>2, <2>3, <2>4, Zenon
    <2>6. \A e \in events : e.b \in Bookings /\ e.b # b
        BY <1>3, Zenon DEF BookingInv, Shape, IdsSound, EventRows
    <2>7. OnlyMoves(c) /\ ClientSound(c)' /\ \A d \in Clients \ {c} : Apart(c, d)'
        BY <1>1, EndMoves, Zenon
    <2>8. Shape'
        BY <1>1, <2>5, <2>7, Zenon DEF BookingInv, Shape, OnlyMoves
    <2>9. IdsSound'
        BY <1>1, <2>5, <2>6, Zenon DEF BookingInv, IdsSound
    <2>10. ReceiptsSound'
        BY <1>1, Zenon DEF BookingInv, ReceiptsSound
    <2>11. Walk'
        <3>1. \A e \in events : FollowsOn(e) => FollowsOn(e)'
            BY <1>1, Zenon DEF FollowsOn, Before, Newest
        <3>2. StandsAt(b)'
            BY <1>1, <2>2, <2>3, <2>5, <2>6, Zenon DEF StandsAt, Mine
        <3>3. ASSUME NEW a \in Bookings, a # b, StandsAt(a) PROVE StandsAt(a)'
            BY <1>1, <2>5, <3>3, Zenon DEF StandsAt, Mine, Newest
        <3>4. ASSUME NEW a \in Bookings, booking'[a] # NoRow PROVE StandsAt(a)'
            <4>1. CASE a = b
                BY <3>2, <4>1, Zenon DEF StandsAt, Mine
            <4>2. CASE a # b
                BY <2>5, <3>3, <3>4, <4>2, Zenon DEF BookingInv, Walk
            <4>. QED  BY <4>1, <4>2, Zenon
        <3>. QED  BY <1>1, <3>1, <3>4, Zenon DEF BookingInv, Walk
    <2>12. LinksAgree'
        <3>1. \A e \in events : booking'[e.b] = booking[e.b]
            BY <2>5, <2>6, Zenon
        <3>2. \A e \in events' : e.journal # "none" => booking'[e.b].journal = e.journal
            BY <1>1, <3>1, ZenonT(30) DEF BookingInv, LinksAgree
        <3>3. ASSUME NEW a \in Bookings, booking'[a].journal # "none"
              PROVE  \E j \in journals', e \in events' :
                         j.key = booking'[a].journal /\ e.id = j.ev /\ e.b = a
            <4>1. booking'[a] = booking[a]
                BY <2>3, <2>5, <3>3, Zenon
            <4>2. PICK j \in journals, e \in events :
                      j.key = booking[a].journal /\ e.id = j.ev /\ e.b = a
                BY <3>3, <4>1, Zenon DEF BookingInv, LinksAgree
            <4>. QED  BY <1>1, <4>1, <4>2, Zenon
        <3>. QED  BY <1>1, <3>2, <3>3, Zenon DEF BookingInv, LinksAgree
    <2>13. ASSUME NEW d \in Clients \ {c} PROVE ClientSound(d)'
        <3>1. seq \in Nat /\ seq' \in Nat /\ seq <= seq' /\ events \subseteq EventRows
            BY <2>7, Zenon DEF BookingInv, Shape, OnlyMoves
        <3>2. ClientSound(d) /\ pc'[d] = pc[d] /\ call'[d] = call[d] /\ pend'[d] = pend[d]
            BY <2>7, Zenon DEF BookingInv, OnlyMoves
        <3>3. \A e \in events : Known(e.id, e.b)'
            BY <1>1, Zenon DEF Known
        <3>4. call[d].b \in Bookings /\ Holds(d) =>
                  rowLock'[call[d].b] = d /\ booking'[call[d].b] = booking[call[d].b]
            BY <1>3, <2>5, <2>7, Zenon DEF Holds, OnlyMoves
        <3>. QED  BY <1>1, <3>1, <3>2, <3>3, <3>4, OtherSound, Zenon
    <2>14. \A a, d \in Clients : a # d => Apart(a, d)'
        BY <2>7, ApartKept, Zenon
    <2>. QED  BY <2>7, <2>8, <2>9, <2>10, <2>11, <2>12, <2>13, <2>14, Zenon DEF BookingInv
<1>. QED  BY <1>2, <1>3, Zenon

\* What a commit with an event does to the tables.
CommitsEvent(c, b, n) ==
    /\ b = call[c].b /\ b \in Bookings
    /\ Pending(c, n)
    /\ booking'  = [booking EXCEPT ![b] = pend[c].row]
    /\ events'   = {e \in events : e.id # n.id} \cup {n}
    /\ receipts' = receipts \cup pend[c].receipts
    /\ journals' = journals \cup pend[c].journals
    /\ (Fresh(c, n) /\ Receipted(c)) \/ Old(c, n)
    /\ Unlinked(c, n) \/ Linked(c, n)

\* The tables after it, row by row.
Tables(c, b, n) ==
    /\ b \in Bookings /\ n.b = b /\ n \in EventRows /\ n \in events'
    /\ booking' \in [Bookings -> Rows \cup {NoRow}]
    /\ booking'[b] = pend[c].row /\ booking'[b] \in Rows
    /\ \A a \in Bookings : a # b => booking'[a] = booking[a]
    /\ \A e \in events : e.id # n.id => e \in events'
    /\ \A e \in events' : e = n \/ (e \in events /\ e.id # n.id)
    /\ \A e \in events : e.b \in Bookings
    /\ \A e \in events : e.id = n.id => Old(c, n) /\ Same(e, n) /\ e.journal = "none"
    /\ rowLock[b] = c

\* A commit leaves the tables so.
LEMMA CommitTables ==
    ASSUME BookingInv, NEW c \in Clients, NEW b, NEW n, CommitsEvent(c, b, n)
    PROVE  Tables(c, b, n)
<1>1. booking \in [Bookings -> Rows \cup {NoRow}] /\ \A e \in events : e.b \in Bookings
    BY Zenon DEF BookingInv, Shape, EventRows
<1>2. b \in Bookings /\ n.b = b /\ n \in EventRows /\ pend[c].row \in Rows /\ rowLock[b] = c
    BY Zenon DEF CommitsEvent, Pending, Holds
<1>3. ASSUME NEW e \in events, e.id = n.id PROVE Old(c, n) /\ Same(e, n) /\ e.journal = "none"
    <2>1. Old(c, n)
        BY <1>3, Zenon DEF CommitsEvent, Fresh
    <2>2. PICK f \in events : Same(f, n) /\ f.journal = "none"
        BY <2>1, Zenon DEF Old
    <2>3. f = e
        BY <1>3, <2>2, Zenon DEF Same, BookingInv, IdsSound
    <2>. QED  BY <2>1, <2>2, <2>3, Zenon
<1>4. /\ booking' \in [Bookings -> Rows \cup {NoRow}] /\ booking'[b] = pend[c].row
      /\ \A a \in Bookings : a # b => booking'[a] = booking[a]
    BY <1>1, <1>2, Zenon DEF CommitsEvent
<1>5. /\ n \in events' /\ \A e \in events : e.id # n.id => e \in events'
      /\ \A e \in events' : e = n \/ (e \in events /\ e.id # n.id)
    BY Zenon DEF CommitsEvent
<1>. QED  BY <1>1, <1>2, <1>3, <1>4, <1>5, Zenon DEF Tables

\* Ids and receipts after a commit.
LEMMA CommitReceipts ==
    ASSUME BookingAssumption, BookingInv, NEW c \in Clients, NEW b, NEW n,
           CommitsEvent(c, b, n), seq' = seq
    PROVE  IdsSound' /\ ReceiptsSound'
<1>0. Tables(c, b, n)
    BY CommitTables, Zenon
<1> USE <1>0 DEF Tables
<1>1. IdsSound'
    <2>1. n.id <= seq
        BY PendingIds, Zenon DEF CommitsEvent, Pending
    <2>2. \A e \in events' : e.id <= seq' /\ booking'[e.b] # NoRow
        BY <2>1, RowsThere, Zenon DEF BookingInv, IdsSound
    <2>3. \A e, f \in events' : e.id = f.id => e = f
        BY Zenon DEF BookingInv, IdsSound
    <2>. QED  BY <2>2, <2>3, Zenon DEF IdsSound
<1>2. ReceiptsSound'
    <2>1. CASE Fresh(c, n) /\ Receipted(c)
        <3>0. /\ b = call[c].b /\ n.id = pend[c].got /\ n.key = call[c].key
              /\ \E r \in pend[c].receipts : /\ pend[c].receipts = {r}
                    /\ r.key = call[c].key /\ r.b = call[c].b /\ r.ev = pend[c].got
            <4> HIDE <1>0 DEF Tables
            <4>. QED  BY <2>1, Zenon DEF Receipted, CommitsEvent, Fresh
        <3>1. PICK r : /\ pend[c].receipts = {r} /\ r.key = call[c].key /\ r.b = b
                       /\ r.ev = n.id /\ r.key = n.key
            <4> HIDE <1>0 DEF Tables
            <4>. QED  BY <3>0, Zenon
        <3>2. receipts' = receipts \cup {r} /\ \A s \in receipts : s.key # r.key
            BY <2>1, <3>1, Zenon DEF CommitsEvent, Receipted
        <3>3. \A e \in events : e \in events'
            BY <2>1, Zenon DEF Fresh
        <3>4. \A e \in events' : \E s \in receipts' : s.key = e.key /\ s.ev = e.id
            BY <3>1, <3>2 DEF BookingInv, ReceiptsSound
        <3>5. \A s \in receipts' : \E e \in events' : e.id = s.ev /\ e.b = s.b
            BY ZenonT(30), <3>1, <3>2, <3>3 DEF BookingInv, ReceiptsSound
        <3>6. \A s, t \in receipts' : s.key = t.key => s = t
            BY <3>2, Zenon DEF BookingInv, ReceiptsSound
        <3>. QED  BY <3>4, <3>5, <3>6, Zenon DEF ReceiptsSound
    <2>2. CASE Old(c, n)
        <3>1. receipts' = receipts
            BY <2>2, Zenon DEF CommitsEvent, Old
        <3>2. PICK f \in events : Same(f, n)
            BY <2>2, Zenon DEF Old
        <3>3. ASSUME NEW e \in events' PROVE \E s \in receipts : s.key = e.key /\ s.ev = e.id
            <4>1. PICK g \in events : g.key = e.key /\ g.id = e.id
                BY <3>2, Zenon DEF Same
            <4>2. PICK s \in receipts : s.key = g.key /\ s.ev = g.id
                BY Zenon DEF BookingInv, ReceiptsSound
            <4>. QED  BY <4>1, <4>2, Zenon
        <3>4. ASSUME NEW s \in receipts PROVE \E e \in events' : e.id = s.ev /\ e.b = s.b
            <4>1. PICK e \in events : e.id = s.ev /\ e.b = s.b
                BY Zenon DEF BookingInv, ReceiptsSound
            <4>2. CASE e.id = n.id
                BY <4>1, <4>2, Zenon DEF Same
            <4>3. CASE e.id # n.id
                BY <4>1, <4>3, Zenon
            <4>. QED  BY <4>2, <4>3, Zenon
        <3>. QED  BY <3>1, <3>3, <3>4, Zenon DEF BookingInv, ReceiptsSound
    <2>. QED  BY <2>1, <2>2, Zenon DEF CommitsEvent
<1>. QED  BY <1>1, <1>2, Zenon

\* A new event is one more step of the walk; a linked one is the same step.
LEMMA CommitWalk ==
    ASSUME BookingAssumption, BookingInv, NEW c \in Clients, NEW b, NEW n,
           CommitsEvent(c, b, n)
    PROVE  Walk'
<1>0. Tables(c, b, n)
    BY CommitTables, Zenon
<1>1. \A e \in events : e.id \in Nat /\ CanTransition(e.from, e.to) /\ FollowsOn(e)
    BY Zenon DEF BookingInv, Shape, EventRows, Walk
<1>2. booking[b] # NoRow /\ n.id \in Nat /\ StandsAt(b)
    BY <1>0, Zenon DEF CommitsEvent, Pending, Holds, EventRows, BookingInv, Walk
<1>3. CASE Fresh(c, n)
    <2>1. /\ events' = events \cup {n} /\ CanTransition(n.from, n.to)
          /\ \A e \in events : e.b = b => e.id < n.id
          /\ n.from = booking[b].status /\ n.to = booking'[b].status
        BY <1>0, <1>3, Zenon DEF Tables, Fresh, CommitsEvent
    <2>2. ASSUME NEW e \in events PROVE FollowsOn(e)'
        <3>1. n.b = e.b => ~ (n.id < e.id)
            BY <1>0, <1>1, <1>2, <2>1 DEF Tables
        <3>2. Before(e)' = Before(e)
            BY <2>1, <3>1, Zenon DEF Before
        <3>. QED  BY <1>1, <2>1, <3>2, Zenon DEF FollowsOn, Newest
    <2>3. FollowsOn(n)'
        <3>1. Before(n)' = Mine(b)
            <4>1. ~ (n.id < n.id) /\ n.b = b
                BY <1>0, <1>2 DEF Tables
            <4>. QED  BY <2>1, <4>1, Zenon DEF Before, Mine
        <3>. QED  BY <1>2, <2>1, <3>1, Zenon DEF FollowsOn, StandsAt, Newest
    <2>4. StandsAt(b)'
        <3>1. \A e \in events' : e.b = b => e.id <= n.id
            BY <1>1, <1>2, <2>1
        <3>2. Newest(n, Mine(b))'
            BY <1>0, <3>1, Zenon DEF Newest, Mine, Tables
        <3>. QED  BY <1>0, <2>1, <3>2, Zenon DEF StandsAt, Tables
    <2>5. ASSUME NEW a \in Bookings, a # b, StandsAt(a) PROVE StandsAt(a)'
        <3>1. Mine(a)' = Mine(a)
            BY <1>0, <2>1, <2>5, Zenon DEF Mine, Tables
        <3>2. booking'[a] = booking[a]
            BY <1>0, <2>5, Zenon DEF Tables
        <3>. QED  BY <2>1, <2>5, <3>1, <3>2, Zenon DEF StandsAt, Newest
    <2>6. ASSUME NEW a \in Bookings, booking'[a] # NoRow PROVE StandsAt(a)'
        <3>1. CASE a = b
            BY <2>4, <3>1, Zenon
        <3>2. CASE a # b
            BY <1>0, <2>5, <2>6, <3>2, Zenon DEF BookingInv, Walk, Tables
        <3>. QED  BY <3>1, <3>2, Zenon
    <2>. QED  BY <1>1, <2>1, <2>2, <2>3, <2>6, Zenon DEF Walk
<1>4. CASE Old(c, n)
    <2>1. PICK o \in events : Same(o, n)
        BY <1>4, Zenon DEF Old
    <2>2. ASSUME NEW x \in events' PROVE \E y \in events : Same(y, x)
        BY <1>0, <2>1, Zenon DEF Tables, Same
    <2>3. ASSUME NEW y \in events PROVE \E x \in events' : Same(y, x)
        BY <1>0, Zenon DEF Tables, Same
    <2>4. ASSUME NEW x \in events' PROVE CanTransition(x.from, x.to) /\ FollowsOn(x)'
        <3>1. PICK y \in events : Same(y, x)
            BY <2>2, Zenon
        <3>2. CASE Before(y) = {} /\ y.from = Initial
            <4>1. ASSUME NEW f \in Before(x)' PROVE FALSE
                <5>1. PICK g \in events : Same(g, f)
                    BY <2>2, Zenon DEF Before
                <5>2. g \in Before(y)
                    BY <3>1, <5>1, Zenon DEF Before, Same
                <5>. QED  BY <3>2, <5>2, Zenon
            <4>2. Before(x)' = {} /\ x.from = Initial
                BY <3>1, <3>2, <4>1, Zenon DEF Same
            <4>. QED  BY <1>1, <3>1, <4>2, Zenon DEF FollowsOn, Same
        <3>3. ASSUME NEW p \in events, Newest(p, Before(y)), p.to = y.from
              PROVE  FollowsOn(x)'
            <4>1. PICK q \in events' : Same(p, q)
                BY <2>3, Zenon
            <4>2. q \in Before(x)'
                BY <3>1, <3>3, <4>1, Zenon DEF Newest, Before, Same
            <4>3. ASSUME NEW f \in Before(x)' PROVE f.id <= q.id
                <5>1. PICK g \in events : Same(g, f)
                    BY <2>2, Zenon DEF Before
                <5>2. g \in Before(y)
                    BY <3>1, <5>1, Zenon DEF Before, Same
                <5>. QED  BY <3>3, <4>1, <5>1, <5>2, Zenon DEF Newest, Same
            <4>4. Newest(q, Before(x))' /\ q.to = x.from
                BY <3>1, <3>3, <4>1, <4>2, <4>3, Zenon DEF Newest, Same
            <4>. QED  BY <4>4, Zenon DEF FollowsOn
        <3>4. CanTransition(x.from, x.to)
            BY <1>1, <3>1, Zenon DEF Same
        <3>5. FollowsOn(x)'
            BY <1>1, <3>2, <3>3, Zenon DEF FollowsOn
        <3>. QED  BY <3>4, <3>5, Zenon
    <2>5. \A a \in Bookings : booking'[a].status = booking[a].status
        BY <1>0, <1>4, Zenon DEF Tables, Old, CommitsEvent
    <2>6. ASSUME NEW a \in Bookings, booking'[a] # NoRow PROVE StandsAt(a)'
        <3>1. StandsAt(a)
            BY <1>0, <1>2, <2>6, Zenon DEF BookingInv, Walk, Tables
        <3>2. CASE Mine(a) = {} /\ booking[a].status = Initial
            <4>1. ASSUME NEW f \in Mine(a)' PROVE FALSE
                <5>1. PICK g \in events : Same(g, f)
                    BY <2>2, Zenon DEF Mine
                <5>2. g \in Mine(a)
                    BY <5>1, Zenon DEF Mine, Same
                <5>. QED  BY <3>2, <5>2, Zenon
            <4>. QED  BY <2>5, <3>2, <4>1, Zenon DEF StandsAt
        <3>3. ASSUME NEW e \in events, Newest(e, Mine(a)), e.to = booking[a].status
              PROVE  StandsAt(a)'
            <4>1. PICK q \in events' : Same(e, q)
                BY <2>3, Zenon
            <4>2. q \in Mine(a)'
                BY <3>3, <4>1, Zenon DEF Newest, Mine, Same
            <4>3. ASSUME NEW f \in Mine(a)' PROVE f.id <= q.id
                <5>1. PICK g \in events : Same(g, f)
                    BY <2>2, Zenon DEF Mine
                <5>2. g \in Mine(a)
                    BY <5>1, Zenon DEF Mine, Same
                <5>. QED  BY <3>3, <4>1, <5>1, <5>2, Zenon DEF Newest, Same
            <4>4. Newest(q, Mine(a))' /\ q.to = booking'[a].status
                BY <2>5, <3>3, <4>1, <4>2, <4>3, Zenon DEF Newest, Same
            <4>. QED  BY <4>4, Zenon DEF StandsAt
        <3>. QED  BY <3>1, <3>2, <3>3, Zenon DEF StandsAt
    <2>. QED  BY <2>4, <2>6, Zenon DEF Walk
<1>. QED  BY <1>3, <1>4, Zenon DEF CommitsEvent

\* The links after a commit.
LEMMA CommitLinks ==
    ASSUME BookingAssumption, BookingInv, NEW c \in Clients, NEW b, NEW n,
           CommitsEvent(c, b, n)
    PROVE  LinksAgree' /\ \A j \in journals' : j.key \in JKeys
<1>0. Tables(c, b, n)
    BY CommitTables, Zenon
<1>1. /\ \A j \in journals : j.key \in JKeys
      /\ \A j \in journals : \E e \in events : e.id = j.ev /\ e.journal = j.key
      /\ \A e \in events : e.journal # "none" => booking[e.b].journal = e.journal
      /\ \A a \in Bookings : booking[a].journal # "none" =>
             \E j \in journals, e \in events :
                 j.key = booking[a].journal /\ e.id = j.ev /\ e.b = a
      /\ "none" \notin JKeys
    BY Zenon DEF BookingInv, Shape, LinksAgree, BookingAssumption
<1>2. \/ journals' = journals /\ n.journal = "none" /\ booking'[b].journal = booking[b].journal
      \/ /\ journals' = journals \cup {[key |-> n.journal, ev |-> n.id]} /\ n.journal \in JKeys
         /\ booking'[b].journal = n.journal /\ booking[b].journal = "none"
    BY <1>0, Zenon DEF CommitsEvent, Unlinked, Linked, Tables
<1>3. \A j \in journals' : j \in journals \/ (j.key = n.journal /\ j.ev = n.id /\ j.key \in JKeys)
    <2>1. PICK k, i : k = n.journal /\ i = n.id
        BY Zenon
    <2>2. ASSUME NEW j, j = [key |-> k, ev |-> i] PROVE j.key = k /\ j.ev = i
        BY <2>2, Zenon
    <2>. QED  BY <1>2, <2>1, <2>2, Zenon
<1>4. ASSUME NEW j \in journals' PROVE \E e \in events' : e.id = j.ev /\ e.journal = j.key
    <2>1. CASE j \in journals
        <3>1. PICK e \in events : e.id = j.ev /\ e.journal = j.key
            BY <1>1, <2>1, Zenon
        <3>2. e.id # n.id
            BY ZenonT(30), <1>0, <1>1, <2>1, <3>1 DEF Tables
        <3>. QED  BY <1>0, <3>1, <3>2, Zenon DEF Tables
    <2>2. CASE j.key = n.journal /\ j.ev = n.id
        BY <1>0, <2>2, Zenon DEF Tables
    <2>. QED  BY <1>3, <2>1, <2>2, Zenon
<1>5. ASSUME NEW e \in events', e.journal # "none" PROVE booking'[e.b].journal = e.journal
    <2>1. CASE e = n
        BY <1>0, <1>2, <1>5, <2>1, Zenon DEF Tables
    <2>2. CASE e \in events
        <3>1. booking[e.b].journal = e.journal /\ e.b \in Bookings
            BY <1>0, <1>1, <1>5, <2>2, Zenon DEF Tables
        <3>2. booking'[e.b].journal = booking[e.b].journal
            BY <1>0, <1>2, <1>5, <3>1, Zenon DEF Tables
        <3>. QED  BY <3>1, <3>2, Zenon
    <2>. QED  BY <1>0, <2>1, <2>2, Zenon DEF Tables
<1>6. ASSUME NEW a \in Bookings, booking'[a].journal # "none"
      PROVE  \E j \in journals', e \in events' :
                 j.key = booking'[a].journal /\ e.id = j.ev /\ e.b = a
    <2>1. CASE booking'[a].journal = booking[a].journal
        <3>1. PICK j \in journals, e \in events :
                  j.key = booking[a].journal /\ e.id = j.ev /\ e.b = a
            BY <1>1, <1>6, <2>1, Zenon
        <3>2. j \in journals'
            BY <1>2, Zenon
        <3>3. PICK f \in events' : f.id = e.id /\ f.b = e.b
            BY <1>0, Zenon DEF Tables, Same
        <3>. QED  BY <2>1, <3>1, <3>2, <3>3, Zenon
    <2>2. CASE booking'[a].journal # booking[a].journal
        <3>1. a = b
            BY <1>0, <2>2, Zenon DEF Tables
        <3>2. /\ journals' = journals \cup {[key |-> n.journal, ev |-> n.id]}
              /\ booking'[b].journal = n.journal
            BY <1>2, <2>2, <3>1, Zenon
        <3>3. PICK j \in journals' : j.key = n.journal /\ j.ev = n.id
            <4>1. PICK j : j = [key |-> n.journal, ev |-> n.id]
                BY Zenon
            <4>2. j.key = n.journal /\ j.ev = n.id
                BY <4>1, Zenon
            <4>. QED  BY <3>2, <4>1, <4>2, Zenon
        <3>. QED  BY <1>0, <3>1, <3>2, <3>3, Zenon DEF Tables
    <2>. QED  BY <2>1, <2>2, Zenon
<1>7. LinksAgree'
    BY <1>4, <1>5, <1>6, Zenon DEF LinksAgree
<1>. QED  BY <1>1, <1>3, <1>7, Zenon

\* A commit leaves the other transactions as they were.
LEMMA CommitOthers ==
    ASSUME BookingAssumption, BookingInv, NEW c \in Clients, NEW b, NEW n,
           CommitsEvent(c, b, n), OnlyMoves(c), NEW d \in Clients \ {c}
    PROVE  ClientSound(d)'
<1>0. Tables(c, b, n)
    BY CommitTables, Zenon
<1>1. seq \in Nat /\ seq' \in Nat /\ seq <= seq' /\ events \subseteq EventRows
    BY Zenon DEF BookingInv, Shape, OnlyMoves
<1>2. ClientSound(d) /\ pc'[d] = pc[d] /\ call'[d] = call[d] /\ pend'[d] = pend[d] /\ Apart(c, d)
    BY Zenon DEF BookingInv, OnlyMoves
<1>3. ASSUME call[d].b \in Bookings, Holds(d)
      PROVE  /\ rowLock'[call[d].b] = d
             /\ booking'[call[d].b] = booking[call[d].b]
             /\ \A e \in events : e.b = call[d].b => e \in events'
             /\ \A e \in events' : e.b = call[d].b => e \in events
    <2>1. rowLock[call[d].b] = d /\ call[d].b # b
        BY <1>0, <1>3, Zenon DEF Holds, Tables
    <2>2. rowLock'[call[d].b] = d /\ booking'[call[d].b] = booking[call[d].b]
        BY <1>0, <1>3, <2>1, Zenon DEF OnlyMoves, Tables
    <2>3. \A e \in events : e.b = call[d].b => e \in events'
        BY <1>0, <2>1, Zenon DEF Tables, Same
    <2>4. \A e \in events' : e.b = call[d].b => e \in events
        BY <1>0, <2>1, Zenon DEF Tables
    <2>. QED  BY <2>2, <2>3, <2>4, Zenon
<1>4. ASSUME NEW e \in events PROVE Known(e.id, e.b)'
    <2>1. PICK f \in events' : f.id = e.id /\ f.b = e.b
        BY <1>0, Zenon DEF Tables, Same
    <2>. QED  BY <2>1, Zenon DEF Known
<1>5. ASSUME NEW m \in pend[d].events, \A e \in events : e.id # m.id
      PROVE  \A e \in events' : e.id # m.id
    <2>1. n \in pend[c].events
        BY Zenon DEF CommitsEvent, Pending
    <2>. QED  BY <1>0, <1>2, <1>5, <2>1, ZenonT(30) DEF Tables, Apart
<1>6. ASSUME NEW r \in pend[d].receipts, \A s \in receipts : s.key # r.key
      PROVE  \A s \in receipts' : s.key # r.key
    BY <1>2, <1>6, Zenon DEF CommitsEvent, Apart
<1>. QED  BY <1>1, <1>2, <1>3, <1>4, <1>5, <1>6, OtherSound, Zenon

\* COMMIT keeps the invariant.
LEMMA CommitInv ==
    ASSUME BookingAssumption, BookingInv, NEW c \in Clients, Commit(c)
    PROVE  BookingInv'
<1>1. pc[c] = "commit" /\ pc[c] # "idle" /\ EndTx(c) /\ UNCHANGED <<due, seq, list>>
    BY Zenon DEF Commit
<1>2. CASE Quiet(c)
    <2>1. /\ booking' = booking
          /\ events' = {e \in events : \A n \in {} : n.id # e.id} \cup {}
          /\ receipts' = receipts \cup {} /\ journals' = journals \cup {}
        BY <1>2, Zenon DEF Commit, Quiet
    <2>2. UNCHANGED dbVars
        BY <2>1, Zenon DEF dbVars
    <2>. QED  BY <1>1, <2>2, EndInv, Zenon
<1>3. ASSUME NEW n, Pending(c, n), Unlinked(c, n) \/ Linked(c, n),
             (Fresh(c, n) /\ Receipted(c)) \/ Old(c, n)
      PROVE  BookingInv'
    <2>1. PICK b : b = call[c].b
        BY Zenon
    <2>2. CommitsEvent(c, b, n)
        <3>1. b \in Bookings
            BY <1>1, <2>1, Zenon DEF BookingInv, ClientSound, CallSound
        <3>2. pend[c].row # NoRow /\ pend[c].events = {n}
            BY <1>3, RowsThere, Zenon DEF Pending
        <3>3. booking' = [booking EXCEPT ![b] = pend[c].row]
            BY <2>1, <3>2, Zenon DEF Commit
        <3>4. events' = {e \in events : e.id # n.id} \cup {n}
            BY <3>2, Zenon DEF Commit
        <3>. QED  BY <1>3, <2>1, <3>1, <3>3, <3>4, Zenon DEF CommitsEvent, Commit
    <2>3. OnlyMoves(c) /\ ClientSound(c)' /\ \A d \in Clients \ {c} : Apart(c, d)'
        BY <1>1, EndMoves, Zenon
    <2>4. IdsSound' /\ ReceiptsSound' /\ Walk' /\ LinksAgree' /\ \A j \in journals' : j.key \in JKeys
        BY <1>1, <2>2, CommitReceipts, CommitWalk, CommitLinks, Zenon
    <2>5. \A d \in Clients \ {c} : ClientSound(d)'
        BY <2>2, <2>3, CommitOthers, Zenon
    <2>6. \A a, d \in Clients : a # d => Apart(a, d)'
        BY <2>3, ApartKept, Zenon
    <2>7. Tables(c, b, n)
        BY <2>2, CommitTables, Zenon
    <2>8. events' \subseteq EventRows
        BY <2>7, Zenon DEF Tables, BookingInv, Shape
    <2>9. Shape'
        BY <2>3, <2>4, <2>7, <2>8, Zenon DEF Tables, Shape, OnlyMoves
    <2>. QED  BY <2>3, <2>4, <2>5, <2>6, <2>9, Zenon DEF BookingInv
<1>4. \/ Quiet(c)
      \/ \E n : /\ Pending(c, n) /\ (Unlinked(c, n) \/ Linked(c, n))
                /\ (Fresh(c, n) /\ Receipted(c)) \/ Old(c, n)
    BY <1>1, Zenon DEF BookingInv, ClientSound, PendSound, Applied
<1>. QED  BY <1>2, <1>3, <1>4, Zenon

-----------------------------------------------------------------------------
(* The theorems.                                                           *)

\* The invariant is about the tables, the row locks and the transactions.
LEMMA StillInv ==
    ASSUME BookingInv,
           UNCHANGED <<booking, events, receipts, journals, rowLock, seq, pc, call, pend>>,
           due' \subseteq Bookings, list' \in [Sweepers -> SUBSET Bookings]
    PROVE  BookingInv'
<1>1. /\ UNCHANGED <<booking, events, receipts, journals>> /\ UNCHANGED rowLock
      /\ UNCHANGED <<seq, pc, call, pend>>
    BY Zenon
<1>3. Shape'
    BY <1>1, Zenon DEF BookingInv, Shape
<1>4. IdsSound' /\ ReceiptsSound' /\ LinksAgree'
    <2>1. IdsSound'
        BY <1>1, Zenon DEF BookingInv, IdsSound
    <2>2. ReceiptsSound'
        BY <1>1, Zenon DEF BookingInv, ReceiptsSound
    <2>3. LinksAgree'
        BY <1>1, LinksStay, Zenon DEF BookingInv
    <2>. QED  BY <2>1, <2>2, <2>3, Zenon
<1>5. Walk'
    <2>1. \A e \in events : FollowsOn(e) => FollowsOn(e)'
        BY <1>1, Zenon DEF FollowsOn, Before, Newest
    <2>2. \A b \in Bookings : StandsAt(b) => StandsAt(b)'
        BY <1>1, Zenon DEF StandsAt, Mine, Newest
    <2>. QED  BY <1>1, <2>1, <2>2, Zenon DEF BookingInv, Walk
<1>6. ASSUME NEW d \in Clients PROVE ClientSound(d)'
    <2>1. seq \in Nat /\ seq' \in Nat /\ seq <= seq' /\ events \subseteq EventRows
        BY <1>1 DEF BookingInv, Shape
    <2>2. ClientSound(d) /\ pc'[d] = pc[d] /\ call'[d] = call[d] /\ pend'[d] = pend[d]
        BY <1>1, Zenon DEF BookingInv
    <2>3. \A e \in events : Known(e.id, e.b)'
        BY <1>1, Zenon DEF Known
    <2>. QED  BY <1>1, <2>1, <2>2, <2>3, OtherSound, Zenon DEF Holds
<1>7. ASSUME NEW c \in Clients, NEW d \in Clients, c # d PROVE Apart(c, d)'
    <2>1. Apart(c, d)
        BY <1>7, Zenon DEF BookingInv
    <2>. QED  BY <1>1, <2>1, Zenon DEF Apart
<1>. QED  BY <1>3, <1>4, <1>5, <1>6, <1>7, Zenon DEF BookingInv

\* The sweep's list and the clock leave everything else alone.
LEMMA SweepInv ==
    ASSUME BookingInv, (\E c \in Sweepers : SweepStart(c)) \/ (\E b \in Bookings : Tick(b))
    PROVE  BookingInv'
<1>1. UNCHANGED <<booking, events, receipts, journals, rowLock, seq, pc, call, pend>>
    BY Zenon DEF SweepStart, Tick, dbVars, lockVars
<1>2. due \subseteq Bookings /\ list \in [Sweepers -> SUBSET Bookings]
    BY Zenon DEF BookingInv, Shape
<1>3. ListExpiredBookings \in SUBSET Bookings
    BY <1>2, Zenon DEF ListExpiredBookings
<1>4. due' \subseteq Bookings /\ list' \in [Sweepers -> SUBSET Bookings]
    BY <1>2, <1>3, Zenon DEF SweepStart, Tick
<1>. QED  BY <1>1, <1>4, StillInv, Zenon

\* Every step keeps the invariant.
LEMMA BookingNextInv ==
    ASSUME BookingAssumption, BookingInv, [Next]_vars
    PROVE  BookingInv'
<1>1. CASE UNCHANGED vars
    <2>1. UNCHANGED <<booking, events, receipts, journals, rowLock, seq, pc, call, pend, due, list>>
        BY <1>1, Zenon DEF vars, dbVars, lockVars
    <2>2. due \subseteq Bookings /\ list \in [Sweepers -> SUBSET Bookings]
        BY Zenon DEF BookingInv, Shape
    <2>. QED  BY <2>1, <2>2, StillInv, Zenon
<1>2. ASSUME NEW c \in Clients,
             CreateBooking(c) \/ Transition(c) \/ RunInTx(c) \/ PostJournal(c) \/ SweepNext(c)
      PROVE  BookingInv'
    BY <1>2, BeginsInv, Zenon
<1>3. ASSUME NEW c \in Clients, Step(c) PROVE BookingInv'
    BY <1>3, LockInv, CreateInsertInv, CheckInv, WriteInv, InsertReceiptInv, PostingInv,
       JLinkInv, CommitInv, Zenon DEF Step
<1>4. ASSUME NEW c \in Clients, Rollback(c) PROVE BookingInv'
    BY <1>4, EndInv, Zenon DEF Rollback
<1>5. Sweepers \subseteq Clients
    BY Zenon DEF BookingAssumption
<1>. QED  BY <1>1, <1>2, <1>3, <1>4, <1>5, SweepInv, Zenon DEF Next

\* The inductive invariant holds in every reachable state, for every lifecycle and every
\* number of callers: rows and events are written under the row lock, receipts go with
\* their events, and an uncommitted event is either new or a committed one being linked.
THEOREM BookingInvariant ==
    ASSUME BookingAssumption PROVE BookingSpec => []BookingInv
<1>1. Init => BookingInv
    BY BookingInitInv, Zenon
<1>2. BookingInv /\ [Next]_vars => BookingInv'
    BY BookingNextInv, Zenon
<1>. QED  BY <1>1, <1>2, PTL DEF BookingSpec

\* A journal that names an event is the one its event points at, a booking points at the
\* journal of one of its own events, and no event of the booking has another: the links
\* that linkJournalToEventAndBooking sets in two UPDATEs agree in every committed state.
THEOREM LinksSound ==
    ASSUME BookingAssumption PROVE BookingSpec => []LinksAgree
<1>1. BookingInv => LinksAgree
    BY Zenon DEF BookingInv
<1>. QED  BY <1>1, BookingInvariant, PTL

\* The newest of a set of events is the one CHOOSE takes.
LEMMA TheNewest ==
    ASSUME BookingInv, NEW S, S \subseteq events, NEW p, Newest(p, S)
    PROVE  (CHOOSE e \in S : \A f \in S : f.id <= e.id) = p
<1> DEFINE q == CHOOSE e \in S : \A f \in S : f.id <= e.id
<1>1. q \in S /\ \A f \in S : f.id <= q.id
    BY Zenon DEF Newest
<1>2. q.id <= p.id /\ p.id <= q.id /\ p \in events /\ q \in events
    BY <1>1, Zenon DEF Newest
<1>3. p.id \in Nat /\ q.id \in Nat
    BY <1>2, Zenon DEF BookingInv, Shape, EventRows
<1>4. p.id = q.id
    <2>. HIDE DEF q
    <2>. QED  BY <1>2, <1>3
<1>. QED  BY <1>2, <1>4, Zenon DEF BookingInv, IdsSound

\* The invariant says that the events form a walk and that a key is applied once.
LEMMA HistoryFollows == BookingInv => HistorySound
<1> SUFFICES ASSUME BookingInv PROVE HistorySound
    BY Zenon
<1>1. KeyAppliedOnce
    <2> SUFFICES ASSUME NEW e \in events, NEW f \in events, e.key = f.key PROVE e.id = f.id
        BY Zenon DEF KeyAppliedOnce
    <2>1. PICK r \in receipts : r.key = e.key /\ r.ev = e.id
        BY Zenon DEF BookingInv, ReceiptsSound
    <2>2. PICK s \in receipts : s.key = f.key /\ s.ev = f.id
        BY Zenon DEF BookingInv, ReceiptsSound
    <2>3. r = s
        <3>1. \A t, u \in receipts : t.key = u.key => t = u
            BY Zenon DEF BookingInv, ReceiptsSound
        <3>. QED  BY <2>1, <2>2, <3>1, Zenon
    <2>. QED  BY <2>1, <2>2, <2>3, Zenon
<1>2. EventsFormPath
    <2> SUFFICES ASSUME NEW b \in Bookings
                 PROVE  LET mine == {e \in events : e.b = b}
                            Prev(e) == {f \in mine : f.id < e.id}
                            Last(S) == CHOOSE e \in S : \A f \in S : f.id <= e.id
                        IN  /\ \A e \in mine :
                                  /\ CanTransition(e.from, e.to)
                                  /\ e.from = IF Prev(e) = {} THEN Initial ELSE Last(Prev(e)).to
                            /\ booking[b] # NoRow =>
                                  booking[b].status = IF mine = {} THEN Initial ELSE Last(mine).to
        BY Zenon DEF EventsFormPath
    <2> DEFINE mine == {e \in events : e.b = b}
               Prev(e) == {f \in mine : f.id < e.id}
               Last(S) == CHOOSE e \in S : \A f \in S : f.id <= e.id
    <2>1. mine = Mine(b)
        BY Zenon DEF Mine
    <2>2. ASSUME NEW S, S \subseteq events, NEW p, Newest(p, S) PROVE S # {} /\ Last(S) = p
        BY <2>2, TheNewest, Zenon DEF Newest
    <2>. HIDE DEF Last
    <2>3. ASSUME NEW e \in mine
          PROVE  /\ CanTransition(e.from, e.to)
                 /\ e.from = IF Prev(e) = {} THEN Initial ELSE Last(Prev(e)).to
        <3>1. CanTransition(e.from, e.to) /\ FollowsOn(e)
            BY Zenon DEF BookingInv, Walk
        <3>2. Prev(e) = Before(e) /\ Before(e) \subseteq events
            BY Zenon DEF Before
        <3>3. e.from = IF Before(e) = {} THEN Initial ELSE Last(Before(e)).to
            BY <2>2, <3>1, <3>2, Zenon DEF FollowsOn
        <3>. QED  BY <3>1, <3>2, <3>3, Zenon
    <2>4. ASSUME booking[b] # NoRow
          PROVE  booking[b].status = IF mine = {} THEN Initial ELSE Last(mine).to
        <3>1. StandsAt(b) /\ Mine(b) \subseteq events
            BY <2>4, Zenon DEF BookingInv, Walk, Mine
        <3>2. booking[b].status = IF Mine(b) = {} THEN Initial ELSE Last(Mine(b)).to
            BY <2>2, <3>1, Zenon DEF StandsAt
        <3>. QED  BY <2>1, <3>2, Zenon
    <2>. QED  BY <2>3, <2>4, Zenon DEF Last
<1>. QED  BY <1>1, <1>2, Zenon DEF HistorySound

\* What Transition leaves behind is one walk through the lifecycle from its initial status
\* to the booking's present one, and no key made two steps of it: not with retries, not with
\* callers that share a key, not with the sweep in between.
THEOREM HistoriesSound ==
    ASSUME BookingAssumption PROVE BookingSpec => []HistorySound
BY HistoryFollows, BookingInvariant, PTL
=============================================================================
