-------------------------------- MODULE Reversal -------------------------------
(***************************************************************************)
(* Reversals of a journal: ReverseJournal (postgres/ledger_store.go),      *)
(* ReverseJournalFraction with AuthorizeReversal                           *)
(* (postgres/reversal_fraction_store.go), and PostJournal with a caller's  *)
(* reversal_of.  Journal 1 is the original.  A dimension is [acct, side]   *)
(* of one currency, an entry [dim, amt].  Signed = TRUE is the pool mode   *)
(* with an Attestor: the entries of a reversal are derived and signed      *)
(* before its transaction opens and compared with what is derived under    *)
(* the row lock of the original.                                           *)
(***************************************************************************)
EXTENDS Money, FiniteSets

CONSTANTS
    Clients, NoClient,
    Keys,        \* idempotency keys of callers
    Reasons,     \* reasons: with the journal they form ReverseJournal's key
    Fractions,   \* <<num, den>> callers ask for
    Original,    \* the entries of the original
    Manual,      \* entry lists callers post themselves with reversal_of
    Signed,      \* TRUE: an Attestor is configured
    MaxCalls,    \* bound: calls
    MaxFaults    \* bound: transactions that die

Flip(d) == [d EXCEPT !.side = IF d.side = "debit" THEN "credit" ELSE "debit"]

\* entriesByDimension: what a list of entries moves on dimension d.
OnDim(entries, d) ==
    SumOf([i \in DOMAIN entries |-> IF entries[i].dim = d THEN entries[i].amt ELSE 0])

DimsOf(entries) == {entries[i].dim : i \in DOMAIN entries}

\* JournalInput.Validate: positive amounts, debits equal credits.
Balanced(entries) ==
    LET side(s) == SumOf([i \in DOMAIN entries |->
                             IF entries[i].dim.side = s THEN entries[i].amt ELSE 0])
    IN  side("debit") = side("credit") /\ \A i \in DOMAIN entries : entries[i].amt > 0

ReversalAssumption ==
    /\ NoClient \notin Clients
    /\ Signed \in BOOLEAN
    /\ Balanced(Original) /\ Original # <<>>
    /\ \A m \in Manual : Balanced(m)
    /\ \A f \in Fractions : f[1] \in 1..f[2]

VARIABLES
    journals,    \* committed journals [key, of, meta, entries]
    rowLock,     \* holder of the row lock of the original
    idemLock,    \* <<key, holder>>
    pc, call,    \* [Clients -> place; the call]
    signed,      \* [Clients -> entries AuthorizeReversal signed]
    derived,     \* [Clients -> entries to be posted]
    result,      \* [Clients -> <<call, outcome>> of the call just ended]
    calls, faults

lockVars == <<rowLock, idemLock>>
vars     == <<journals, lockVars, pc, call, signed, derived, result, calls, faults>>

NoCall == [op |-> "none", of |-> 0, key |-> <<>>, meta |-> <<>>, frac |-> <<1, 1>>,
           entries |-> <<>>]

Init ==
    /\ journals = <<[key |-> <<"original">>, of |-> 0, meta |-> <<>>, entries |-> Original]>>
    /\ rowLock  = NoClient
    /\ idemLock = {}
    /\ pc       = [c \in Clients |-> "idle"]
    /\ call     = [c \in Clients |-> NoCall]
    /\ signed   = [c \in Clients |-> <<>>]
    /\ derived  = [c \in Clients |-> <<>>]
    /\ result   = [c \in Clients |-> <<NoCall, "none">>]
    /\ calls    = 0
    /\ faults   = 0

-----------------------------------------------------------------------------
(* What a reversal moves.                                                  *)

ReversalsOf(j) == {i \in DOMAIN journals : journals[i].of = j}

\* cumulativeReversedByDimension: what the reversals of the original have taken back of
\* its dimension d.
AlreadyReversed(d) ==
    SumOf([i \in DOMAIN journals |-> IF journals[i].of = 1
                                     THEN OnDim(journals[i].entries, Flip(d)) ELSE 0])

\* assertReversalChainIsWellFormed.
ChainWellFormed ==
    \A i \in ReversalsOf(1) : \A d \in DimsOf(journals[i].entries) :
        Flip(d) \in DimsOf(Original) /\ AlreadyReversed(Flip(d)) <= OnDim(Original, Flip(d))

Entries(list) == SelectSeq(list, LAMBDA e : e.amt > 0)

\* reversalEntriesFor, num = den: per dimension, in the order of its first entry, what is
\* left of it.
Remaining ==
    Entries([i \in DOMAIN Original |->
               LET d == Original[i].dim
               IN  [dim |-> Flip(d),
                    amt |-> IF \E h \in 1..(i - 1) : Original[h].dim = d THEN 0
                            ELSE OnDim(Original, d) - AlreadyReversed(d)]])

\* reversalEntriesFor, num # den: each side's total is scaled, rounded and split over the
\* side's entries.
Share(frac) ==
    LET side(s)   == SelectSeq([i \in DOMAIN Original |-> i], LAMBDA i : Original[i].dim.side = s)
        weight(s) == [k \in DOMAIN side(s) |-> Original[side(s)[k]].amt]
        split(s)  == Allocate(ScaleByFraction(SumOf(weight(s)), frac[1], frac[2]), weight(s))
        place(s, i) == CHOOSE k \in DOMAIN side(s) : side(s)[k] = i
    IN  Entries([i \in DOMAIN Original |->
                   LET s == Original[i].dim.side
                   IN  [dim |-> Flip(Original[i].dim), amt |-> split(s)[place(s, i)]]])

\* The overshoot check of reversalEntriesFor and of validateReversalOfInput.
Overshoots(entries) ==
    \E d \in DimsOf(entries) :
        AlreadyReversed(Flip(d)) + OnDim(entries, d) > OnDim(Original, Flip(d))

\* <<entries, error>> of reversalEntriesFor.
ReversalEntriesFor(frac) ==
    LET whole(entries) == <<entries, IF entries = <<>> THEN "conflict" ELSE "">>
        part(entries)  == <<entries, IF Overshoots(entries) THEN "conflict"
                                     ELSE IF entries = <<>> THEN "invalid" ELSE "">>
    IN  IF frac[1] = frac[2] THEN whole(Remaining) ELSE part(Share(frac))

-----------------------------------------------------------------------------
Goto(c, l) == pc' = [pc EXCEPT ![c] = l]

Continue(c, l) ==
    /\ Goto(c, l)
    /\ UNCHANGED <<journals, call, result, calls, faults>>

End(c, how) ==
    /\ result'  = [result EXCEPT ![c] = <<call[c], how>>]
    /\ rowLock' = IF rowLock = c THEN NoClient ELSE rowLock
    /\ idemLock' = {l \in idemLock : l[2] # c}
    /\ call'    = [call EXCEPT ![c] = NoCall]
    /\ signed'  = [signed EXCEPT ![c] = <<>>]
    /\ derived' = [derived EXCEPT ![c] = <<>>]
    /\ Goto(c, "idle")
    /\ UNCHANGED calls

Refuse(c, how) == End(c, how) /\ UNCHANGED <<journals, faults>>

ByKey(k) == {i \in DOMAIN journals : journals[i].key = k}

\* The three entry points.  ReverseJournal derives its key from the journal and the reason.
Request(c, request) ==
    /\ pc[c] = "idle" /\ calls < MaxCalls
    /\ calls' = calls + 1
    /\ call' = [call EXCEPT ![c] = request]
    /\ result' = [result EXCEPT ![c] = <<NoCall, "none">>]
    /\ Goto(c, IF request.op = "post" THEN "idem" ELSE IF Signed THEN "authorize" ELSE "row")
    /\ UNCHANGED <<journals, lockVars, signed, derived, faults>>

ReverseJournal(c) ==
    \E j \in DOMAIN journals, r \in Reasons :
        Request(c, [NoCall EXCEPT !.op = "full", !.of = j, !.key = <<"reversal", j, r>>,
                                  !.meta = <<r>>])

ReverseJournalFraction(c) ==
    \E j \in DOMAIN journals, k \in Keys, r \in Reasons, f \in Fractions :
        Request(c, [NoCall EXCEPT !.op = "fraction", !.of = j, !.key = <<"key", k>>,
                                  !.meta = <<r, f>>, !.frac = f])

PostReversal(c) ==
    \E j \in DOMAIN journals, k \in Keys, m \in Manual :
        Request(c, [NoCall EXCEPT !.op = "post", !.of = j, !.key = <<"key", k>>, !.entries = m])

\* AuthorizeReversal: unlocked reads, the derivation, the signature.
AuthorizeReversal(c) ==
    /\ pc[c] = "authorize"
    /\ \E d \in {ReversalEntriesFor(call[c].frac)} :
           IF journals[call[c].of].of # 0 \/ ~ChainWellFormed THEN Refuse(c, "conflict")
           ELSE IF d[2] # "" THEN Refuse(c, d[2])
           ELSE /\ signed' = [signed EXCEPT ![c] = d[1]]
                /\ Continue(c, "row")
                /\ UNCHANGED <<lockVars, derived>>

\* Fault: the journal row is read without FOR UPDATE.
ReadRow(c) ==
    /\ pc[c] = "row"
    /\ Continue(c, IF call[c].op = "post" THEN "validate" ELSE "derive")
    /\ UNCHANGED <<lockVars, signed, derived>>

\* GetJournalForUpdateByUID: only the original's lock can be contended; a reversal is
\* refused whatever its lock does.
LockRow(c) ==
    /\ pc[c] = "row"
    /\ call[c].of = 1 => rowLock = NoClient
    /\ rowLock' = IF call[c].of = 1 THEN c ELSE rowLock
    /\ Continue(c, IF call[c].op = "post" THEN "validate" ELSE "derive")
    /\ UNCHANGED <<idemLock, signed, derived>>

\* The end of both derivations: the chain, the entries, the comparison of the digests.
DeriveRest(c) ==
    \E d \in {ReversalEntriesFor(call[c].frac)} :
        IF ~ChainWellFormed THEN Refuse(c, "conflict")
        ELSE IF d[2] # "" THEN Refuse(c, d[2])
        ELSE IF Signed /\ signed[c] # d[1] THEN Refuse(c, "conflict")
        ELSE /\ derived' = [derived EXCEPT ![c] = d[1]]
             /\ Continue(c, "idem")
             /\ UNCHANGED <<lockVars, signed>>

\* reverseJournalWithQueries: a reversal of this key is returned, any other history refused.
DeriveFull(c) ==
    /\ pc[c] = "derive" /\ call[c].op = "full"
    /\ LET mine == ByKey(call[c].key) \cap ReversalsOf(call[c].of)
       IN  IF journals[call[c].of].of # 0 THEN Refuse(c, "conflict")
           ELSE IF mine # {} THEN Refuse(c, "replayed")
           ELSE IF ReversalsOf(call[c].of) # {} THEN Refuse(c, "conflict")
           ELSE DeriveRest(c)

\* reverseJournalFractionWithQueries: the key answers first, under the row lock.
DeriveFraction(c) ==
    /\ pc[c] = "derive" /\ call[c].op = "fraction"
    /\ LET mine == ByKey(call[c].key)
       IN  IF mine # {}
           THEN Refuse(c, IF \A i \in mine : /\ journals[i].of = call[c].of
                                             /\ journals[i].meta = call[c].meta
                          THEN "replayed" ELSE "conflict")
           ELSE IF journals[call[c].of].of # 0 THEN Refuse(c, "conflict")
           ELSE DeriveRest(c)

\* postJournalWithQueries: the key's advisory lock, and the look at the key under it.
LockIdem(c) ==
    /\ pc[c] = "idem"
    /\ \A l \in idemLock : l[1] # call[c].key
    /\ IF ByKey(call[c].key) # {}
       THEN Refuse(c, IF \A i \in ByKey(call[c].key) : /\ journals[i].of = call[c].of
                                                       /\ journals[i].meta = call[c].meta
                                                       /\ call[c].op = "post" =>
                                                            journals[i].entries = call[c].entries
                      THEN "replayed" ELSE "conflict")
       ELSE /\ idemLock' = idemLock \cup {<<call[c].key, c>>}
            /\ derived' = IF call[c].op = "post"
                          THEN [derived EXCEPT ![c] = call[c].entries] ELSE derived
            /\ Continue(c, IF call[c].op = "post" THEN "row" ELSE "validate")
            /\ UNCHANGED <<rowLock, signed>>

\* validateReversalOfInput.
Validate(c) ==
    /\ pc[c] = "validate"
    /\ LET e == derived[c]
       IN  IF journals[call[c].of].of # 0 \/ ~ChainWellFormed THEN Refuse(c, "conflict")
           ELSE IF \E d \in DimsOf(e) : Flip(d) \notin DimsOf(Original) THEN Refuse(c, "invalid")
           ELSE IF Overshoots(e) THEN Refuse(c, "conflict")
           ELSE /\ Continue(c, "insert")
                /\ UNCHANGED <<lockVars, signed, derived>>

\* The insert and the commit.
Insert(c) ==
    /\ pc[c] = "insert"
    /\ journals' = Append(journals, [key |-> call[c].key, of |-> call[c].of,
                                     meta |-> call[c].meta, entries |-> derived[c]])
    /\ End(c, "posted")
    /\ UNCHANGED faults

Rollback(c) ==
    /\ pc[c] \in {"row", "derive", "idem", "validate", "insert"}
    /\ faults < MaxFaults
    /\ faults' = faults + 1
    /\ End(c, "failed")
    /\ UNCHANGED journals

-----------------------------------------------------------------------------
Next ==
    \E c \in Clients :
        \/ ReverseJournal(c) \/ ReverseJournalFraction(c) \/ PostReversal(c)
        \/ AuthorizeReversal(c) \/ LockRow(c) \/ DeriveFull(c) \/ DeriveFraction(c) \/ LockIdem(c) \/ Validate(c)
        \/ Insert(c) \/ Rollback(c)

ReversalSpec == Init /\ [][Next]_vars

-----------------------------------------------------------------------------

\* "Cumulative reversed amount per original entry never exceeds that entry's amount",
\* whichever of the three entry points posted the reversals and however they
\* interleave; a reversal inverts only what the original has, and is never reversed.
NeverOverReversed ==
    /\ \A i \in DOMAIN journals : journals[i].of \in {0, 1}
    /\ ChainWellFormed

\* What is derived for a reversal balances, and so does what would be left to reverse:
\* per-side totals are scaled once and split, never rounded entry by entry.
DerivedBalanced ==
    /\ Balanced(Remaining)
    /\ \A c \in Clients : Balanced(derived[c])

\* Reversals, by hand or derived, stay within the original and keep the books balanced.
ReversalsSound == NeverOverReversed /\ DerivedBalanced
=============================================================================
