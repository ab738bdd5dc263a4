----------------------------- MODULE MCBusiness ------------------------------
(* The operations of a ledger's callers beyond plain posting, each on a small *)
(* instance of its own: bookings, pending deposits, reversals, account        *)
(* policies, exchanges, and the configuration tables with their caches; then  *)
(* money and lifecycles over every small input.  The bookings' lifecycle      *)
(* is that of presets/withdrawal.go cut down to its cycle.                    *)
EXTENDS Booking, Pending, TLC

CONSTANTS c1, c2, s1,               \* callers, a sweeper
          k1, k2, j1, j2            \* idempotency keys

Callers == {c1, c2}
TransitionKeys == {k1, k2, <<"k3">>}
JournalKeys == {j1, j2}
DepositCallers == {c1, c2, s1}
PendingKeys == {k1, k2}

\* Bookings: a lifecycle with a cycle.  One part has two bookings go round it, the other
\* links the journals of one.
WithdrawalEdges == {<<"reserved", "processing">>, <<"processing", "failed">>,
                    <<"failed", "reserved">>}
NextCycles ==
    Next /\ calls' <= 4 /\ \A c \in Clients : call'[c].op \in {"none", "create", "transition"}
NextLinks ==
    Next /\ \A c \in Clients : call'[c].b # "b2" /\ call'[c].key # <<"k3">>

\* Reversals: two debits on one account, one on a second, and one credit; callers
\* post by hand a proper partial reversal, one that takes too much from b, and a
\* net-zero pair.
D(a) == [acct |-> a, side |-> "debit"]
C(a) == [acct |-> a, side |-> "credit"]
E(d, n) == [dim |-> d, amt |-> n]
FourEntries == <<E(D("a"), 2), E(D("a"), 1), E(D("b"), 1), E(C("c"), 4)>>
ByHand == { <<E(C("a"), 1), E(D("c"), 1)>>, <<E(C("b"), 2), E(D("c"), 2)>>,
            <<E(C("a"), 1), E(D("a"), 1)>> }
Halves == {<<1, 2>>, <<1, 1>>}

\* Policies: classification 1 is a wallet (debit-normal), 2 the pending account
\* (credit-normal).  A withdrawal, a confirmed deposit (pending down, wallet up),
\* an exchange of one currency for the other, a deposit split over two entries.
Entry(cur, cls, s, n) == [dim |-> <<cur, cls>>, side |-> s, amount |-> n]
Policy(s, m, e) == [status |-> s, min |-> m, enforce |-> e]
PolicyJournals ==
    { <<Entry(1, 1, "credit", 1)>>,
      <<Entry(1, 2, "debit", 1), Entry(1, 1, "debit", 1)>>,
      <<Entry(1, 1, "credit", 1), Entry(2, 1, "debit", 2)>>,
      <<Entry(1, 1, "credit", 1), Entry(1, 1, "debit", 2)>> }
PolicyInputs ==
    { [dim |-> <<0, 0>>, pol |-> Policy("frozen", 0, FALSE)],
      [dim |-> <<1, 0>>, pol |-> Policy("active", 0, TRUE)],
      [dim |-> <<1, 0>>, pol |-> Policy("frozen", 0, FALSE)],
      [dim |-> <<1, 1>>, pol |-> Policy("closed", 0, FALSE)],
      [dim |-> <<0, 1>>, pol |-> Policy("frozen", 0, FALSE)] }

\* Exchanges: x1 and x3 are one call and its retry, x2 has the same key and another
\* quote, y1 goes the other way, z1 names a template that debits the pending
\* account, w1 a rate that buys nothing; d1 is a deposit, h1 a hold.
X(key, rate, sell) == [op |-> "exchange", key |-> key, from |-> "src", to |-> "tgt", qty |-> 1,
                       rate |-> rate, sell |-> sell, buy |-> "fx_buy", fund |-> "d"]
Trades == [x1 |-> X("a", "v1", "fx_sell"), x2 |-> X("a", "v2", "fx_sell"), x3 |-> X("a", "v1", "fx_sell"),
           y1 |-> [X("b", "v1", "fx_sell") EXCEPT !.from = "tgt", !.to = "src", !.fund = ""],
           z1 |-> [X("c", "v1", "hold_back") EXCEPT !.fund = ""],
           w1 |-> [X("e", "v3", "fx_sell") EXCEPT !.fund = ""],
           d1 |-> [X("d", "v1", "deposit") EXCEPT !.op = "deposit", !.to = "src", !.buy = "deposit", !.fund = ""],
           h1 |-> [X("h", "v1", "fx_sell") EXCEPT !.op = "hold", !.fund = ""]]
Line(who, class, side) == [who |-> who, class |-> class, side |-> side]
Templates == [fx_sell |-> <<Line("user", "available", "credit"), Line("system", "settlement", "debit")>>,
              fx_buy |-> <<Line("system", "settlement", "credit"), Line("user", "available", "debit")>>,
              deposit |-> <<Line("user", "available", "debit"), Line("system", "settlement", "credit")>>,
              hold_back |-> <<Line("user", "pending", "credit"), Line("system", "settlement", "debit")>>]

VARIABLES
    part, posted, signed, derived, result, policies, audit, bal, reserved,
    seen, steady, rsv, jrn, held, db, tmpl, lastId, hist, cache, act, total, weights,
    mode, l

Rv == INSTANCE Reversal WITH
    Clients <- Callers, Keys <- {k1, k2}, Reasons <- {j1, j2}, Fractions <- Halves,
    Original <- FourEntries, Manual <- ByHand, Signed <- FALSE, MaxCalls <- 4, MaxFaults <- 1,
    MaxIntegerDigits <- 2, MaxFractionalDigits <- 0, GuardDigits <- 2, journals <- posted
Sg == INSTANCE Reversal WITH
    Clients <- Callers, Keys <- {k1, k2}, Reasons <- {j1, j2}, Fractions <- Halves,
    Original <- FourEntries, Manual <- ByHand, Signed <- TRUE, MaxCalls <- 3, MaxFaults <- 1,
    MaxIntegerDigits <- 2, MaxFractionalDigits <- 0, GuardDigits <- 2, journals <- posted
Ap == INSTANCE AccountPolicy WITH
    Clients <- Callers, NCur <- 2, NCls <- 2, CreditNormal <- {2}, Journals <- PolicyJournals,
    Inputs <- PolicyInputs, MaxCalls <- 4
Ex == INSTANCE Exchange WITH
    Calls <- DOMAIN Trades, In <- Trades, Lines <- Templates, Price <- [v1 |-> 1, v2 |-> 1, v3 |-> 0],
    Opening <- [src |-> 0, tgt |-> 1],
    Teams <- {{"x1", "x2", "x3", "d1"}, {"x1", "y1", "d1", "h1"}, {"x1", "z1", "w1", "d1"}}
Cf == INSTANCE Config WITH
    Installers <- {"i1", "i2"}, Callers <- {"t1"}, Posters <- {"p1"}, MaxId <- 6,
    Preset <- [i1 |-> [side |-> "debit", role |-> "available", kind |-> "deposit", label |-> "Main"],
    i2 |-> [side |-> "debit", role |-> "locked", kind |-> "fee", label |-> ""]],
    Teams <- {{"i1", "i2"}, {"i1", "p1"}, {"i1", "t1"}, {"t1", "p1"}},
    Operated <- {"cur", "class", "jt", "template"}
Al == INSTANCE MoneyInputs WITH
    GuardDigits <- 1, MaxFractionalDigits <- 1,
    MaxIntegerDigits <- 2, MaxTotal <- 9, MaxWeight <- 12, MaxParts <- 3, Coefs <- {0},
    MaxPlaces <- 0, MaxExp <- 0
Cv == INSTANCE MoneyInputs WITH
    GuardDigits <- 1, MaxFractionalDigits <- 1,
    MaxIntegerDigits <- 2, MaxTotal <- 0, MaxWeight <- 0, MaxParts <- 0, MaxPlaces <- 2, MaxExp <- 1,
    Coefs <- {0, 1, 2, 3, 5, 7, 9, 10, 15, 19, 25, 35, 49, 50, 51, 95, 99, 100}
Lc == INSTANCE LifecycleInputs WITH
    Statuses <- {1, 2, 3}, MaxTargets <- 2

suiteVars == <<part, booking, due, events, receipts, journals, seq, list, rowLock,
          idemLock, balLock, pc, call, pend, answers, calls, faults, log, old, keyLock,
          pairLock, at, req, verified, outcome, requests, deaths, posted, signed,
          derived, result, policies, audit, bal, reserved, seen, steady, rsv, jrn, held,
          db, tmpl, lastId, hist, cache, act, total, weights, mode, l>>

\* A behaviour is about one part; the variables of the others are out of use.
SuiteInit ==
    \/ /\ \/ part = "cycles" /\ Init
          \/ part = "links" /\ Init
       /\ log = <<>> /\ old = 0 /\ keyLock = 0 /\ pairLock = 0 /\ at = 0 /\ req = 0
       /\ verified = 0 /\ outcome = 0 /\ requests = 0 /\ deaths = 0 /\ posted = 0
       /\ signed = 0 /\ derived = 0 /\ result = 0 /\ policies = 0 /\ audit = 0
       /\ bal = 0 /\ reserved = 0 /\ seen = 0 /\ steady = 0 /\ rsv = 0 /\ jrn = 0
       /\ held = 0 /\ db = 0 /\ tmpl = 0 /\ lastId = 0 /\ hist = 0 /\ cache = 0
       /\ act = 0 /\ total = 0 /\ weights = 0 /\ mode = 0 /\ l = 0
    \/ /\ part = "pending" /\ PendingInit
       /\ booking = [b \in Bookings |-> NoRow] /\ due = 0 /\ events = {} /\ receipts = 0
       /\ journals = {} /\ seq = 0 /\ list = 0 /\ rowLock = 0 /\ idemLock = 0
       /\ balLock = 0 /\ pc = 0 /\ call = 0 /\ pend = 0 /\ answers = 0 /\ calls = 0
       /\ faults = 0 /\ posted = 0 /\ signed = 0 /\ derived = 0 /\ result = 0
       /\ policies = 0 /\ audit = 0 /\ bal = 0 /\ reserved = 0 /\ seen = 0 /\ steady = 0
       /\ rsv = 0 /\ jrn = 0 /\ held = 0 /\ db = 0 /\ tmpl = 0 /\ lastId = 0 /\ hist = 0
       /\ cache = 0 /\ act = 0 /\ total = 0 /\ weights = 0 /\ mode = 0 /\ l = 0
    \/ /\ \/ part = "reversals" /\ Rv!Init
          \/ part = "signed" /\ Sg!Init
       /\ booking = [b \in Bookings |-> NoRow] /\ due = 0 /\ events = {} /\ receipts = 0
       /\ journals = {} /\ seq = 0 /\ list = 0 /\ balLock = 0 /\ pend = 0 /\ answers = 0
       /\ log = <<>> /\ old = 0 /\ keyLock = 0 /\ pairLock = 0 /\ at = 0 /\ req = 0
       /\ verified = 0 /\ outcome = 0 /\ requests = 0 /\ deaths = 0 /\ policies = 0
       /\ audit = 0 /\ bal = 0 /\ reserved = 0 /\ seen = 0 /\ steady = 0 /\ rsv = 0
       /\ jrn = 0 /\ held = 0 /\ db = 0 /\ tmpl = 0 /\ lastId = 0 /\ hist = 0
       /\ cache = 0 /\ act = 0 /\ total = 0 /\ weights = 0 /\ mode = 0 /\ l = 0
    \/ /\ part = "policies" /\ Ap!Init
       /\ booking = [b \in Bookings |-> NoRow] /\ due = 0 /\ events = {} /\ receipts = 0
       /\ journals = {} /\ seq = 0 /\ list = 0 /\ idemLock = 0 /\ pend = 0
       /\ answers = 0 /\ faults = 0 /\ log = <<>> /\ old = 0 /\ keyLock = 0
       /\ pairLock = 0 /\ at = 0 /\ req = 0 /\ verified = 0 /\ outcome = 0
       /\ requests = 0 /\ deaths = 0 /\ posted = 0 /\ signed = 0 /\ derived = 0
       /\ result = 0 /\ rsv = 0 /\ jrn = 0 /\ held = 0 /\ db = 0 /\ tmpl = 0
       /\ lastId = 0 /\ hist = 0 /\ cache = 0 /\ act = 0 /\ total = 0 /\ weights = 0
       /\ mode = 0 /\ l = 0
    \/ /\ part = "exchange" /\ Ex!Init
       /\ booking = [b \in Bookings |-> NoRow] /\ due = 0 /\ events = {} /\ receipts = 0
       /\ journals = {} /\ seq = 0 /\ list = 0 /\ rowLock = 0 /\ idemLock = 0
       /\ balLock = 0 /\ pc = 0 /\ pend = 0 /\ answers = 0 /\ calls = 0 /\ faults = 0
       /\ log = <<>> /\ old = 0 /\ keyLock = 0 /\ pairLock = 0 /\ at = 0 /\ req = 0
       /\ verified = 0 /\ outcome = 0 /\ requests = 0 /\ deaths = 0 /\ posted = 0
       /\ signed = 0 /\ derived = 0 /\ result = 0 /\ policies = 0 /\ audit = 0
       /\ bal = 0 /\ reserved = 0 /\ seen = 0 /\ steady = 0 /\ db = 0 /\ tmpl = 0
       /\ lastId = 0 /\ hist = 0 /\ cache = 0 /\ act = 0 /\ total = 0 /\ weights = 0
       /\ mode = 0 /\ l = 0
    \/ /\ part = "config" /\ Cf!Init
       /\ booking = [b \in Bookings |-> NoRow] /\ due = 0 /\ events = {} /\ receipts = 0
       /\ journals = {} /\ seq = 0 /\ list = 0 /\ rowLock = 0 /\ idemLock = 0
       /\ balLock = 0 /\ pc = 0 /\ call = 0 /\ pend = 0 /\ answers = 0 /\ calls = 0
       /\ faults = 0 /\ log = <<>> /\ old = 0 /\ keyLock = 0 /\ pairLock = 0 /\ at = 0
       /\ req = 0 /\ verified = 0 /\ outcome = 0 /\ requests = 0 /\ deaths = 0
       /\ posted = 0 /\ signed = 0 /\ derived = 0 /\ result = 0 /\ policies = 0
       /\ audit = 0 /\ bal = 0 /\ reserved = 0 /\ seen = 0 /\ steady = 0 /\ rsv = 0
       /\ jrn = 0 /\ held = 0 /\ total = 0 /\ weights = 0 /\ mode = 0 /\ l = 0
    \/ /\ \/ part = "allocate" /\ Al!AllocateInit
          \/ part = "convert" /\ Cv!ConvertInit
       /\ booking = [b \in Bookings |-> NoRow] /\ due = 0 /\ events = {} /\ receipts = 0
       /\ journals = {} /\ seq = 0 /\ list = 0 /\ rowLock = 0 /\ idemLock = 0
       /\ balLock = 0 /\ pc = 0 /\ call = 0 /\ pend = 0 /\ answers = 0 /\ calls = 0
       /\ faults = 0 /\ log = <<>> /\ old = 0 /\ keyLock = 0 /\ pairLock = 0 /\ at = 0
       /\ req = 0 /\ verified = 0 /\ outcome = 0 /\ requests = 0 /\ deaths = 0
       /\ posted = 0 /\ signed = 0 /\ derived = 0 /\ result = 0 /\ policies = 0
       /\ audit = 0 /\ bal = 0 /\ reserved = 0 /\ seen = 0 /\ steady = 0 /\ rsv = 0
       /\ jrn = 0 /\ held = 0 /\ db = 0 /\ tmpl = 0 /\ lastId = 0 /\ hist = 0
       /\ cache = 0 /\ act = 0 /\ l = 0
    \/ /\ part = "lifecycle" /\ Lc!Init
       /\ booking = [b \in Bookings |-> NoRow] /\ due = 0 /\ events = {} /\ receipts = 0
       /\ journals = {} /\ seq = 0 /\ list = 0 /\ rowLock = 0 /\ idemLock = 0
       /\ balLock = 0 /\ pc = 0 /\ call = 0 /\ pend = 0 /\ answers = 0 /\ calls = 0
       /\ faults = 0 /\ log = <<>> /\ old = 0 /\ keyLock = 0 /\ pairLock = 0 /\ at = 0
       /\ req = 0 /\ verified = 0 /\ outcome = 0 /\ requests = 0 /\ deaths = 0
       /\ posted = 0 /\ signed = 0 /\ derived = 0 /\ result = 0 /\ policies = 0
       /\ audit = 0 /\ bal = 0 /\ reserved = 0 /\ seen = 0 /\ steady = 0 /\ rsv = 0
       /\ jrn = 0 /\ held = 0 /\ db = 0 /\ tmpl = 0 /\ lastId = 0 /\ hist = 0
       /\ cache = 0 /\ act = 0 /\ total = 0 /\ weights = 0 /\ mode = 0

SuiteNext ==
    /\ UNCHANGED part
    /\ \/ /\ \/ part = "cycles" /\ NextCycles
             \/ part = "links" /\ NextLinks
          /\ UNCHANGED <<log, old, keyLock, pairLock, at, req, verified, outcome,
                         requests, deaths, posted, signed, derived, result, policies,
                         audit, bal, reserved, seen, steady, rsv, jrn, held, db, tmpl,
                         lastId, hist, cache, act, total, weights, mode, l>>
       \/ /\ part = "pending" /\ PendingNext
          /\ UNCHANGED <<booking, due, events, receipts, journals, seq, list, rowLock,
                         idemLock, balLock, pc, call, pend, answers, calls, faults,
                         posted, signed, derived, result, policies, audit, bal,
                         reserved, seen, steady, rsv, jrn, held, db, tmpl, lastId, hist,
                         cache, act, total, weights, mode, l>>
       \/ /\ \/ part = "reversals" /\ Rv!Next
             \/ part = "signed" /\ Sg!Next
          /\ UNCHANGED <<booking, due, events, receipts, journals, seq, list, balLock,
                         pend, answers, log, old, keyLock, pairLock, at, req, verified,
                         outcome, requests, deaths, policies, audit, bal, reserved,
                         seen, steady, rsv, jrn, held, db, tmpl, lastId, hist, cache,
                         act, total, weights, mode, l>>
       \/ /\ part = "policies" /\ Ap!Next
          /\ UNCHANGED <<booking, due, events, receipts, journals, seq, list, idemLock,
                         pend, answers, faults, log, old, keyLock, pairLock, at, req,
                         verified, outcome, requests, deaths, posted, signed, derived,
                         result, rsv, jrn, held, db, tmpl, lastId, hist, cache, act,
                         total, weights, mode, l>>
       \/ /\ part = "exchange" /\ Ex!Next
          /\ UNCHANGED <<booking, due, events, receipts, journals, seq, list, rowLock,
                         idemLock, balLock, pc, pend, answers, calls, faults, log, old,
                         keyLock, pairLock, at, req, verified, outcome, requests,
                         deaths, posted, signed, derived, result, policies, audit, bal,
                         reserved, seen, steady, db, tmpl, lastId, hist, cache, act,
                         total, weights, mode, l>>
       \/ /\ part = "config" /\ Cf!Next
          /\ UNCHANGED <<booking, due, events, receipts, journals, seq, list, rowLock,
                         idemLock, balLock, pc, call, pend, answers, calls, faults, log,
                         old, keyLock, pairLock, at, req, verified, outcome, requests,
                         deaths, posted, signed, derived, result, policies, audit, bal,
                         reserved, seen, steady, rsv, jrn, held, total, weights, mode, l>>
       \/ /\ \/ part = "allocate" /\ Al!AddWeight
             \/ part = "convert" /\ Cv!DrawRate
          /\ UNCHANGED <<booking, due, events, receipts, journals, seq, list, rowLock,
                         idemLock, balLock, pc, call, pend, answers, calls, faults, log,
                         old, keyLock, pairLock, at, req, verified, outcome, requests,
                         deaths, posted, signed, derived, result, policies, audit, bal,
                         reserved, seen, steady, rsv, jrn, held, db, tmpl, lastId, hist,
                         cache, act, l>>
       \/ /\ part = "lifecycle" /\ Lc!Next
          /\ UNCHANGED <<booking, due, events, receipts, journals, seq, list, rowLock,
                         idemLock, balLock, pc, call, pend, answers, calls, faults, log,
                         old, keyLock, pairLock, at, req, verified, outcome, requests,
                         deaths, posted, signed, derived, result, policies, audit, bal,
                         reserved, seen, steady, rsv, jrn, held, db, tmpl, lastId, hist,
                         cache, act, total, weights, mode>>

SuiteSpec == SuiteInit /\ [][SuiteNext]_suiteVars
-----------------------------------------------------------------------------
ASSUME ConstantsFit ==
    /\ BookingAssumption /\ Rv!ReversalAssumption /\ Sg!ReversalAssumption
    /\ Al!MoneyAssumption /\ Cv!MoneyAssumption

\* The clients of a part, and the keys, are alike.
Sym == Permutations(Callers) \cup Permutations({k1, k2}) \cup Permutations({j1, j2})

\* ReverseJournalFraction: nothing is reversed beyond its amount, and what is derived
\* balances.
ReversalsSound == (part = "reversals" => Rv!ReversalsSound) /\ (part = "signed" => Sg!ReversalsSound)

\* A journal or a reservation that commits respects the policy then in force.
PolicyRespected == [][part = "policies" => Ap!PolicyRespected]_suiteVars

\* Service.Exchange: its four writes are there together or not at all, as quoted, and no
\* funds are spent twice.
BooksSound == part = "exchange" => Ex!BooksSound

\* The shared dimension cache holds committed ids only, an installed side and role stay, and
\* no posting uses a row that was deactivated before it was called.
ConfigSound == part = "config" => Cf!ConfigSound

\* Allocate, scaleByFraction and Convert agree with their reference definitions.
ArithmeticExact == (part = "allocate" => Al!AllocateExact) /\ (part = "convert" => Cv!ConvertExact)

\* Validate and lifecycleCycle agree with their reference definitions.
LifecycleExact == part = "lifecycle" => Lc!LifecycleExact
=============================================================================
