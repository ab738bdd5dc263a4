----------------------------- MODULE LedgerStore -----------------------------
(***************************************************************************)
(* The journal write path of postgres/ledger_store.go: PostJournal and     *)
(* ExecuteTemplateBatch, run by concurrent clients against one PostgreSQL  *)
(* database under READ COMMITTED.  A step of a client is one statement of  *)
(* its transaction; what it inserts stays in txJ/txE until COMMIT, and its *)
(* advisory locks stay with it until COMMIT or ROLLBACK.                   *)
(*                                                                         *)
(* A journal input is [key, eff, legs]: its idempotency key, its           *)
(* effective date and its entries, each on a (holder, currency) pair and a *)
(* classification.  Pairs and keys are numbered in the order in which      *)
(* sortedUniquePairs and sort.Strings put them.  Amounts are left out: no  *)
(* property here tells two balanced journals of the same shape apart.      *)
(***************************************************************************)
EXTENDS Integers, Sequences, FiniteSets

CONSTANTS
    Clients,    \* goroutines calling the store, one transaction each
    Others,     \* sessions of other components that take balance locks
    NoClient,   \* holder of a free lock
    NPairs,     \* number of (holder, currency) pairs
    NKeys,      \* number of idempotency keys
    Classes,    \* classifications
    MaxEff,     \* latest effective date
    Requests,   \* the calls clients may make: <<kind, inputs>>
    MaxCalls    \* bound: calls begun in a behaviour

Pairs == 1..NPairs
Keys  == 1..NKeys
Dates == 0..MaxEff

Legs   == [pair : Pairs, cls : Classes]
Inputs == [key : Keys, eff : Dates, legs : Seq(Legs)]

ASSUME ClientsAssumption ==
    /\ NoClient \notin Clients \cup Others
    /\ Clients \cap Others = {}
ASSUME BoundsAssumption ==
    /\ NPairs \in Nat /\ NKeys \in Nat /\ MaxEff \in Nat /\ MaxCalls \in Nat
ASSUME RequestsAssumption ==
    \A r \in Requests :
        /\ r \in {"post", "batch"} \X Seq(Inputs)
        /\ Len(r[2]) > 0
        /\ r[1] = "post" => Len(r[2]) = 1

VARIABLES
    pc,         \* [Clients -> where the client is in its call]
    req,        \* [Clients -> the inputs of the call in progress]
    at,         \* [Clients -> index of the input being posted]
    got,        \* [Clients -> journals found or inserted so far, in order]
    txJ, txE,   \* [Clients -> uncommitted journals and entries]
    idemLock,   \* [Keys -> holder of pg_advisory_xact_lock('idem:'key)]
    balLock,    \* [Pairs -> holder of pg_advisory_xact_lock('bal:'pair)]
    readers,    \* clients holding the shared half of the period barrier
    closing,    \* TRUE while somebody holds its exclusive half
    closes,     \* committed rows of period_closes
    journals,   \* committed journals
    entries,    \* committed entries
    seq,        \* last id handed out by the database sequences
    answers,    \* what callers have been told
    calls       \* calls begun so far

txVars     == <<pc, req, at, got, txJ, txE>>
lockVars   == <<idemLock, balLock, readers>>
dbVars     == <<journals, entries, seq>>
closeVars  == <<closing, closes>>
postVars   == <<txVars, lockVars, dbVars, closeVars, answers, calls>>

PCs == {"idle", "preIdem", "preBal", "lookup", "idem", "recheck", "barrier",
        "gate", "balance", "insert", "commit"}

-----------------------------------------------------------------------------
(* What a statement of client c's transaction sees.                        *)

Input(c) == req[c][at[c]]

KeysOf(ins)  == {ins[i].key : i \in DOMAIN ins}
\* Fault: only the pair of the first leg is locked.
FirstPairOf(in) == {in.legs[1].pair}

PairsOf(in)  == {in.legs[i].pair : i \in DOMAIN in.legs}
AllPairs(ins) == UNION {PairsOf(ins[i]) : i \in DOMAIN ins}

Visible(c) == journals \cup txJ[c]

\* GetJournalByIdempotencyKey.
Existing(c) == {j \in Visible(c) : j.input.key = Input(c).key}

\* The latest row by (created_at, id) is the active line; 0 when there is none.
ActiveLine ==
    LET newest == {r \in closes : \A s \in closes :
                      \/ s.created < r.created
                      \/ s.created = r.created /\ s.id <= r.id}
    IN  IF closes = {} THEN 0 ELSE (CHOOSE r \in newest : TRUE).line

NewEntries(c) ==
    {[id   |-> seq + i, uid |-> seq + Len(Input(c).legs) + 1,
      pair |-> Input(c).legs[i].pair, cls |-> Input(c).legs[i].cls] :
        i \in DOMAIN Input(c).legs}

\* Every dimension whose rollup row the uncommitted inserts of c have dirtied.
Dirtied(c) == {<<e.pair, e.cls>> : e \in txE[c]}

-----------------------------------------------------------------------------
PostInit ==
    /\ pc       = [c \in Clients |-> "idle"]
    /\ req      = [c \in Clients |-> <<>>]
    /\ at       = [c \in Clients |-> 1]
    /\ got      = [c \in Clients |-> <<>>]
    /\ txJ      = [c \in Clients |-> {}]
    /\ txE      = [c \in Clients |-> {}]
    /\ idemLock = [k \in Keys |-> NoClient]
    /\ balLock  = [p \in Pairs |-> NoClient]
    /\ readers  = {}
    /\ closing  = FALSE
    /\ closes   = {}
    /\ journals = {}
    /\ entries  = {}
    /\ seq      = 0
    /\ answers  = {}
    /\ calls    = 0

Goto(c, l) == pc' = [pc EXCEPT ![c] = l]

\* PostJournal runs postJournalWithQueries at once; ExecuteTemplateBatch first
\* takes every lock of the batch (preacquireBatchLocks).
Begin(c) ==
    /\ pc[c] = "idle"
    /\ calls < MaxCalls
    /\ calls' = calls + 1
    /\ \E r \in Requests :
          /\ req' = [req EXCEPT ![c] = r[2]]
          /\ Goto(c, IF r[1] = "batch" THEN "preIdem" ELSE "lookup")
    /\ UNCHANGED <<at, got, txJ, txE, lockVars, dbVars, closeVars, answers>>

\* Take the smallest of the keys that c does not hold yet; when it holds them
\* all, go on to next.  The lock is re-entrant.
LockIdem(c, need, here, next) ==
    /\ pc[c] = here
    /\ \/ /\ \A k \in need : idemLock[k] = c
          /\ Goto(c, next)
          /\ UNCHANGED idemLock
       \/ \E k \in need :
          /\ idemLock[k] = NoClient
          /\ \A l \in need : l < k => idemLock[l] = c
          /\ idemLock' = [idemLock EXCEPT ![k] = c]
          /\ UNCHANGED pc
    /\ UNCHANGED <<req, at, got, txJ, txE, balLock, readers, dbVars, closeVars,
                   answers, calls>>

\* Fault: pairs are locked in whatever order the legs come in.
LockBalanceUnsorted(c, need, here, next) ==
    /\ pc[c] = here
    /\ \/ /\ \A p \in need : balLock[p] = c
          /\ Goto(c, next)
          /\ UNCHANGED balLock
       \/ \E p \in need :
          /\ balLock[p] = NoClient
          /\ balLock' = [balLock EXCEPT ![p] = c]
          /\ UNCHANGED pc
    /\ UNCHANGED <<req, at, got, txJ, txE, idemLock, readers, dbVars, closeVars,
                   answers, calls>>

\* acquireBalanceLocks: the same, over (holder, currency) pairs.
LockBalance(c, need, here, next) ==
    /\ pc[c] = here
    /\ \/ /\ \A p \in need : balLock[p] = c
          /\ Goto(c, next)
          /\ UNCHANGED balLock
       \/ \E p \in need :
          /\ balLock[p] = NoClient
          /\ \A q \in need : q < p => balLock[q] = c
          /\ balLock' = [balLock EXCEPT ![p] = c]
          /\ UNCHANGED pc
    /\ UNCHANGED <<req, at, got, txJ, txE, idemLock, readers, dbVars, closeVars,
                   answers, calls>>

PreLockIdem(c) == LockIdem(c, KeysOf(req[c]), "preIdem", "preBal")
PreLockBal(c)  == LockBalance(c, AllPairs(req[c]), "preBal", "lookup")

-----------------------------------------------------------------------------
(* The end of a transaction: every lock goes, uncommitted rows with it.    *)

EndTx(c) ==
    /\ Goto(c, "idle")
    /\ req'  = [req EXCEPT ![c] = <<>>]
    /\ at'   = [at  EXCEPT ![c] = 1]
    /\ got'  = [got EXCEPT ![c] = <<>>]
    /\ txJ'  = [txJ EXCEPT ![c] = {}]
    /\ txE'  = [txE EXCEPT ![c] = {}]
    /\ idemLock' = [k \in Keys  |-> IF idemLock[k] = c THEN NoClient
                                                       ELSE idemLock[k]]
    /\ balLock'  = [p \in Pairs |-> IF balLock[p] = c THEN NoClient
                                                      ELSE balLock[p]]
    /\ readers'  = readers \ {c}

\* The call returns an error that depends on the database's state.
Refuse(c, why) ==
    /\ EndTx(c)
    /\ answers' = answers \cup {[input |-> Input(c), res |-> why, uid |-> 0]}
    /\ UNCHANGED <<dbVars, closeVars, calls>>

\* The journal of this input is j: remember it and go on with the next input.
Return(c, j) ==
    /\ got' = [got EXCEPT ![c] = Append(@, j)]
    /\ IF at[c] < Len(req[c])
       THEN /\ at' = [at EXCEPT ![c] = @ + 1]
            /\ Goto(c, "lookup")
       ELSE /\ Goto(c, "commit")
            /\ UNCHANGED at

\* A journal with this key exists: ensureJournalMatchesInput returns it when
\* the payload is the same and refuses the call otherwise.
MatchInput(c, j) ==
    \/ /\ j.input = Input(c)
       /\ Return(c, j)
       /\ UNCHANGED <<req, txJ, txE, lockVars, dbVars, closeVars, answers, calls>>
    \/ /\ j.input # Input(c)
       /\ Refuse(c, "conflict")

\* A look-up by idempotency key, before (here = "lookup") and after
\* (here = "recheck") the idempotency lock.
LookupStep(c, here, next) ==
    /\ pc[c] = here
    /\ \/ /\ Existing(c) = {}
          /\ Goto(c, next)
          /\ UNCHANGED <<req, at, got, txJ, txE, lockVars, dbVars, closeVars,
                         answers, calls>>
       \/ \E j \in Existing(c) : MatchInput(c, j)

Lookup(c)  == LookupStep(c, "lookup", "idem")
\* Fault: no second look-up under the idempotency lock.
IdemNoRecheck(c) == LockIdem(c, {Input(c).key}, "idem", "barrier")

Idem(c)    == LockIdem(c, {Input(c).key}, "idem", "recheck")
Recheck(c) == LookupStep(c, "recheck", "barrier")

\* Fault: the shared half is not kept to the end of the transaction.
BarrierBriefly(c) ==
    /\ pc[c] = "barrier"
    /\ ~closing
    /\ Goto(c, "gate")
    /\ UNCHANGED <<req, at, got, txJ, txE, lockVars, dbVars, closeVars, answers, calls>>

\* acquirePeriodReadBarrier: the shared half waits only for a close in progress.
Barrier(c) ==
    /\ pc[c] = "barrier"
    /\ ~closing
    /\ readers' = readers \cup {c}
    /\ Goto(c, "gate")
    /\ UNCHANGED <<req, at, got, txJ, txE, idemLock, balLock, dbVars, closeVars,
                   answers, calls>>

\* GetActivePeriodClose and the comparison with effective_at.
Gate(c) ==
    /\ pc[c] = "gate"
    /\ \/ /\ Input(c).eff >= ActiveLine
          /\ Goto(c, "balance")
          /\ UNCHANGED <<req, at, got, txJ, txE, lockVars, dbVars, closeVars,
                         answers, calls>>
       \/ /\ Input(c).eff < ActiveLine
          /\ Refuse(c, "period_closed")

Balance(c) == LockBalance(c, PairsOf(Input(c)), "balance", "insert")

\* InsertJournal, InsertJournalEntry for every leg and EnqueueRollup for every
\* dimension (its effect is visible at COMMIT: see Dirtied).  The ids come from
\* sequences, which a rollback does not rewind.  The unique index on the
\* idempotency key is left out: OneJournalPerKey shows the locks suffice.
Insert(c) ==
    /\ pc[c] = "insert"
    /\ LET j == [uid |-> seq + Len(Input(c).legs) + 1, input |-> Input(c)]
       IN  /\ txJ' = [txJ EXCEPT ![c] = @ \cup {j}]
           /\ Return(c, j)
    /\ txE' = [txE EXCEPT ![c] = @ \cup NewEntries(c)]
    /\ seq' = seq + Len(Input(c).legs) + 1
    /\ UNCHANGED <<req, lockVars, journals, entries, closeVars, answers, calls>>

\* COMMIT.  The rows become visible at once; the acknowledgement may be lost,
\* and then the caller knows nothing.
Commit(c) ==
    /\ pc[c] = "commit"
    /\ journals' = journals \cup txJ[c]
    /\ entries'  = entries \cup txE[c]
    /\ EndTx(c)
    /\ \/ answers' = answers \cup
             {[input |-> req[c][i], res |-> "ok", uid |-> got[c][i].uid] :
                 i \in DOMAIN req[c]}
       \/ UNCHANGED answers
    /\ UNCHANGED <<seq, closeVars, calls>>

\* ROLLBACK: a failed validation, a policy that rejects the journal, an
\* unbalanced journal, a cancelled context, a lost connection, a crash.
Rollback(c) ==
    /\ pc[c] # "idle"
    /\ EndTx(c)
    /\ UNCHANGED <<dbVars, closeVars, answers, calls>>

Statement(c) ==
    \/ PreLockIdem(c) \/ PreLockBal(c)
    \/ Lookup(c) \/ Idem(c) \/ Recheck(c)
    \/ Barrier(c) \/ Gate(c) \/ Balance(c) \/ Insert(c)

Step(c) == Statement(c) \/ Commit(c)

PostNext == \E c \in Clients : Begin(c) \/ Step(c) \/ Rollback(c)

PostSpec == PostInit /\ [][PostNext]_postVars

-----------------------------------------------------------------------------
Journals == [uid : Nat, input : Inputs]
Entries  == [id : Nat, uid : Nat, pair : Pairs, cls : Classes]
Answers  == [input : Inputs, res : {"ok", "conflict", "period_closed"}, uid : Nat]

\* Every variable of the write path has its type.
PostTypeOK ==
    /\ pc       \in [Clients -> PCs]
    /\ req      \in [Clients -> Seq(Inputs)]
    /\ at       \in [Clients -> Nat \ {0}]
    /\ got      \in [Clients -> Seq(Journals)]
    /\ txJ      \in [Clients -> SUBSET Journals]
    /\ txE      \in [Clients -> SUBSET Entries]
    /\ idemLock \in [Keys  -> Clients \cup {NoClient}]
    /\ balLock  \in [Pairs -> Clients \cup Others \cup {NoClient}]
    /\ readers  \in SUBSET Clients
    /\ closing  \in BOOLEAN
    /\ closes   \in SUBSET [created : Nat, id : Nat, line : Dates]
    /\ journals \in SUBSET Journals
    /\ entries  \in SUBSET Entries
    /\ seq      \in Nat
    /\ answers  \in SUBSET Answers
    /\ calls    \in Nat

\* However calls with one idempotency key interleave, retry and crash, at most
\* one journal carries the key: postJournalWithQueries looks the key up again
\* under the idempotency lock and keeps the lock until COMMIT.
OneJournalPerKey ==
    \A i, j \in journals : i.input.key = j.input.key => i = j

\* Once a journal is committed, every later answer about its key is that
\* journal for the same payload and a conflict for another one; a retry after
\* a lost acknowledgement is never refused, not even by a period closed since.
RetryAnswered ==
    [][\A a \in answers' \ answers, j \in journals :
          a.input.key = j.input.key =>
             IF a.input = j.input THEN a.res = "ok" /\ a.uid = j.uid
                                  ELSE a.res = "conflict"]_postVars

\* What a caller has been told is durable: the journal of an "ok" answer is
\* committed, with the payload the caller sent.
AnswersDurable ==
    \A a \in answers : a.res = "ok" =>
        [uid |-> a.uid, input |-> a.input] \in journals

\* Entries of one (holder, currency) pair become visible in the order of their
\* ids: ids are drawn under the pair's balance lock, which is held to COMMIT.
\* Every checkpoint, which only looks past its last_entry_id, rests on it.
VisibleInIdOrder ==
    [][\A e \in entries' \ entries, f \in entries :
          e.pair = f.pair => f.id < e.id]_postVars

\* Client c waits for an advisory lock that client d holds.
NeedIdem(c) == IF pc[c] = "preIdem" THEN KeysOf(req[c])
               ELSE IF pc[c] = "idem" THEN {Input(c).key} ELSE {}
NeedBal(c)  == IF pc[c] = "preBal" THEN AllPairs(req[c])
               ELSE IF pc[c] = "balance" THEN PairsOf(Input(c)) ELSE {}

WantsIdem(c, k) == /\ k \in NeedIdem(c)
                   /\ idemLock[k] # c
                   /\ \A l \in NeedIdem(c) : l < k => idemLock[l] = c
WantsBal(c, p)  == /\ p \in NeedBal(c)
                   /\ balLock[p] # c
                   /\ \A q \in NeedBal(c) : q < p => balLock[q] = c

WaitsFor(c, d) == \/ \E k \in Keys  : WantsIdem(c, k) /\ idemLock[k] = d
                  \/ \E p \in Pairs : WantsBal(c, p)  /\ balLock[p] = d

\* No clients wait for one another in a circle: idempotency keys before balance
\* pairs, each in sorted order, in single posts and batches alike.
NoWaitCycle ==
    \A S \in (SUBSET Clients) \ {{}} :
        \E c \in S : \A d \in S : ~ WaitsFor(c, d)
=============================================================================
