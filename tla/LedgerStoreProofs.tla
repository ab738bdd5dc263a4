-------------------------- MODULE LedgerStoreProofs -------------------------
(***************************************************************************)
(* Proofs about the write path of LedgerStore, for any number of clients,  *)
(* pairs, keys and calls: type correctness, one journal per idempotency    *)
(* key, the answer to retries, durability of answers, the order in which   *)
(* entries become visible, and the order in which locks are taken.         *)
(***************************************************************************)
EXTENDS LedgerStore, TLAPS, WellFoundedInduction

Holders == Clients \cup Others \cup {NoClient}

-----------------------------------------------------------------------------
(* The inductive invariant, in parts.                                      *)

\* A call in progress is at one of its inputs, with the journals of the inputs
\* before it at hand; an idle client has nothing in flight.
InProgress ==
    \A c \in Clients :
        /\ pc[c] = "idle" =>
              /\ at[c] = 1 /\ got[c] = <<>> /\ txJ[c] = {} /\ txE[c] = {}
        /\ pc[c] # "idle" => at[c] \in 1..Len(req[c])
        /\ pc[c] \notin {"idle", "commit"} => Len(got[c]) = at[c] - 1
        /\ pc[c] = "commit" => Len(got[c]) = Len(req[c])
        /\ \A i \in 1..Len(got[c]) :
              /\ got[c][i] \in Visible(c)
              /\ got[c][i].input = req[c][i]

\* Past the recheck a client holds the idempotency lock of its input and no
\* journal carries its key; to insert it holds the lock of every pair.
LocksHeld ==
    \A c \in Clients :
        /\ pc[c] \in {"recheck", "barrier", "gate", "balance", "insert"} =>
              idemLock[Input(c).key] = c
        /\ pc[c] \in {"barrier", "gate", "balance", "insert"} => Existing(c) = {}
        /\ pc[c] = "insert" => \A p \in PairsOf(Input(c)) : balLock[p] = c

\* Uncommitted rows are covered by locks of the client that inserted them.
RowsLocked ==
    \A c \in Clients :
        /\ \A j \in txJ[c] : idemLock[j.input.key] = c
        /\ \A e \in txE[c] : balLock[e.pair] = c

\* No id is beyond the sequence, and the entries a client is about to publish
\* come after every committed entry of their pair.
IdsOrdered ==
    /\ \A e \in entries : e.id <= seq
    /\ \A c \in Clients : \A e \in txE[c] :
          /\ e.id <= seq
          /\ \A f \in entries : e.pair = f.pair => f.id < e.id

\* The journals a client sees have different keys.
KeysUnique ==
    \A c \in Clients : \A i, j \in Visible(c) :
        i.input.key = j.input.key => i = j

PostInv ==
    /\ PostTypeOK /\ InProgress /\ LocksHeld /\ RowsLocked /\ IdsOrdered
    /\ KeysUnique /\ OneJournalPerKey /\ AnswersDurable
-----------------------------------------------------------------------------
(* The input a client is at, and the types of what it inserts.             *)

\* A client in a call is at a well-formed input.
LEMMA InputType ==
    ASSUME PostTypeOK, InProgress, NEW c \in Clients, pc[c] # "idle"
    PROVE  /\ Input(c) \in Inputs
           /\ Input(c).key \in Keys
           /\ Input(c).legs \in Seq(Legs)
           /\ Len(Input(c).legs) \in Nat
           /\ PairsOf(Input(c)) \subseteq Pairs
<1>1. at[c] \in 1..Len(req[c]) /\ req[c] \in Seq(Inputs)
  BY Zenon DEF PostTypeOK, InProgress
<1>2. Input(c) \in Inputs
  BY <1>1 DEF Input
<1>3. \A i \in DOMAIN Input(c).legs : Input(c).legs[i] \in Legs
  BY <1>2 DEF Inputs
<1> QED
  BY <1>2, <1>3 DEF Inputs, PairsOf, Legs

\* The keys and pairs preacquireBatchLocks collects are keys and pairs.
LEMMA RequestTypes ==
    ASSUME PostTypeOK, NEW c \in Clients
    PROVE  KeysOf(req[c]) \subseteq Keys /\ AllPairs(req[c]) \subseteq Pairs
<1>1. req[c] \in Seq(Inputs)
  BY Zenon DEF PostTypeOK
<1>2. ASSUME NEW i \in DOMAIN req[c]
      PROVE  req[c][i].key \in Keys /\ PairsOf(req[c][i]) \subseteq Pairs
  <2>1. req[c][i].key \in Keys /\ req[c][i].legs \in Seq(Legs)
    <3>1. req[c][i] \in Inputs
      BY <1>1
    <3> QED
      BY <3>1, Zenon DEF Inputs
  <2>2. \A n \in DOMAIN req[c][i].legs : req[c][i].legs[n] \in Legs
    BY <2>1
  <2> QED
    BY <2>1, <2>2, Zenon DEF PairsOf, Legs
<1> QED
  BY <1>2, Zenon DEF KeysOf, AllPairs

\* The entries and the journal that Insert adds have their types, are above
\* the sequence and on the pairs of the input.
LEMMA NewRowsType ==
    ASSUME PostTypeOK, InProgress, NEW c \in Clients, pc[c] # "idle"
    PROVE  /\ seq + Len(Input(c).legs) + 1 \in Nat
           /\ [uid |-> seq + Len(Input(c).legs) + 1, input |-> Input(c)] \in Journals
           /\ NewEntries(c) \subseteq Entries
           /\ \A e \in NewEntries(c) :
                 /\ e.pair \in PairsOf(Input(c))
                 /\ e.id > seq
                 /\ e.id <= seq + Len(Input(c).legs) + 1
<1>1. Input(c) \in Inputs /\ Input(c).legs \in Seq(Legs) /\ Len(Input(c).legs) \in Nat
  BY InputType, Zenon
<1>2. seq \in Nat
  BY Zenon DEF PostTypeOK
<1>3. \A i \in DOMAIN Input(c).legs :
         /\ i \in 1..Len(Input(c).legs)
         /\ Input(c).legs[i] \in Legs
  BY <1>1
<1>4. ASSUME NEW e \in NewEntries(c)
      PROVE  /\ e \in Entries
             /\ e.pair \in PairsOf(Input(c))
             /\ e.id > seq
             /\ e.id <= seq + Len(Input(c).legs) + 1
  <2>1. PICK i \in DOMAIN Input(c).legs :
           e = [id |-> seq + i, uid |-> seq + Len(Input(c).legs) + 1,
                pair |-> Input(c).legs[i].pair, cls |-> Input(c).legs[i].cls]
    BY Zenon DEF NewEntries
  <2> QED
    BY <2>1, <1>1, <1>2, <1>3 DEF Entries, Legs, PairsOf
<1> QED
  BY <1>1, <1>2, <1>4 DEF Journals

-----------------------------------------------------------------------------
(* Type correctness.                                                       *)

\* The end of a transaction (EndTx) leaves every variable it resets in its type.
LEMMA EndTxType ==
    ASSUME PostTypeOK, NEW c \in Clients, EndTx(c)
    PROVE  /\ pc' \in [Clients -> PCs]
           /\ req' \in [Clients -> Seq(Inputs)]
           /\ at' \in [Clients -> Nat \ {0}]
           /\ got' \in [Clients -> Seq(Journals)]
           /\ txJ' \in [Clients -> SUBSET Journals]
           /\ txE' \in [Clients -> SUBSET Entries]
           /\ idemLock' \in [Keys -> Clients \cup {NoClient}]
           /\ balLock' \in [Pairs -> Holders]
           /\ readers' \in SUBSET Clients
<1>1. <<>> \in Seq(Inputs) /\ <<>> \in Seq(Journals)
  OBVIOUS
<1> QED
  BY <1>1 DEF PostTypeOK, EndTx, Goto, PCs, Holders

-----------------------------------------------------------------------------
(* Steps that insert nothing and end nothing.                              *)

\* Such a step of c moves only pc[c] (and req[c] when the call begins) and
\* takes locks that were free.
Quiet(c) ==
    /\ \E l \in PCs : pc' = [pc EXCEPT ![c] = l]
    /\ \A d \in Clients \ {c} : req'[d] = req[d]
    /\ req' \in [Clients -> Seq(Inputs)]
    /\ idemLock' \in [Keys -> Clients \cup {NoClient}]
    /\ balLock' \in [Pairs -> Holders]
    /\ \A k \in Keys : idemLock[k] # NoClient => idemLock'[k] = idemLock[k]
    /\ \A p \in Pairs : balLock[p] # NoClient => balLock'[p] = balLock[p]
    /\ readers' \in SUBSET Clients
    /\ calls' \in Nat
    /\ UNCHANGED <<at, got, txJ, txE, dbVars, closeVars, answers>>

\* A quiet step keeps everything except, perhaps, what is said of the place c
\* has reached.
LEMMA QuietInv ==
    ASSUME PostInv, NEW c \in Clients, Quiet(c),
           pc'[c] # "idle",
           /\ at[c] \in 1..Len(req'[c])
           /\ Len(got[c]) = at[c] - 1
           /\ pc[c] # "idle" => req'[c] = req[c],
           pc'[c] # "commit",
           /\ pc'[c] \in {"recheck", "barrier", "gate", "balance", "insert"} =>
                 idemLock'[Input(c)'.key] = c
           /\ pc'[c] \in {"barrier", "gate", "balance", "insert"} => Existing(c)' = {}
           /\ pc'[c] = "insert" => \A p \in PairsOf(Input(c)') : balLock'[p] = c
    PROVE  PostInv'
<1> USE DEF PostInv
<1>1. PostTypeOK'
  <2>1. pc' \in [Clients -> PCs]
    BY Zenon DEF PostTypeOK, Quiet
  <2>2. UNCHANGED <<at, got, txJ, txE, journals, entries, seq, closing, closes, answers>>
    BY Zenon DEF Quiet, dbVars, closeVars
  <2> QED
    BY <2>1, <2>2, Zenon DEF PostTypeOK, Quiet, Holders
<1>2. \A d \in Clients : d # c => pc'[d] = pc[d] /\ req'[d] = req[d]
  BY Zenon DEF Quiet, PostTypeOK
<1>3. \A d \in Clients : Visible(d)' = Visible(d)
  BY Zenon DEF Quiet, Visible, dbVars
<1>4. \A d \in Clients : d # c => Input(d)' = Input(d) /\ Existing(d)' = Existing(d)
  BY <1>2, <1>3 DEF Quiet, Input, Existing
<1>5. InProgress'
  <2> SUFFICES ASSUME NEW d \in Clients
               PROVE  InProgress!(d)'
    BY Zenon DEF InProgress
  <2>1. CASE d = c
    <3>1. pc[c] = "idle" => Len(got[c]) = 0
      BY DEF InProgress
    <3>2. \A i \in 1..Len(got[c]) :
             got[c][i] \in Visible(c) /\ got[c][i].input = req'[c][i]
      BY <3>1 DEF InProgress
    <3> QED
      BY <2>1, <3>2, <1>3 DEF Quiet
  <2>2. CASE d # c
    BY <2>2, <1>2, <1>3 DEF Quiet, InProgress
  <2> QED
    BY <2>1, <2>2, Zenon
<1>10. \A d \in Clients :
          /\ \A k \in Keys : idemLock[k] = d => idemLock'[k] = d
          /\ \A p \in Pairs : balLock[p] = d => balLock'[p] = d
  BY ClientsAssumption DEF Quiet
<1>6. LocksHeld'
  <2> SUFFICES ASSUME NEW d \in Clients
               PROVE  LocksHeld!(d)'
    BY Zenon DEF LocksHeld
  <2>1. CASE d = c
    BY <2>1, Zenon
  <2>2. CASE d # c
    <3>1. pc[d] # "idle" => Input(d).key \in Keys /\ PairsOf(Input(d)) \subseteq Pairs
      BY InputType, Zenon
    <3> QED
      BY <2>2, <3>1, <1>2, <1>4, <1>10 DEF LocksHeld
  <2> QED
    BY <2>1, <2>2, Zenon
<1>7. RowsLocked'
  <2> SUFFICES ASSUME NEW d \in Clients
               PROVE  RowsLocked!(d)'
    BY Zenon DEF RowsLocked
  <2>1. \A j \in txJ[d] : j.input.key \in Keys
    BY DEF PostTypeOK, Journals, Inputs
  <2>2. \A e \in txE[d] : e.pair \in Pairs
    BY DEF PostTypeOK, Entries
  <2>3. txJ' = txJ /\ txE' = txE
    BY Zenon DEF Quiet
  <2> QED
    BY <2>1, <2>2, <2>3, <1>10, Zenon DEF RowsLocked
<1>8. IdsOrdered'
  BY Zenon DEF Quiet, IdsOrdered, dbVars
<1>9. KeysUnique' /\ OneJournalPerKey' /\ AnswersDurable'
  BY <1>3 DEF Quiet, KeysUnique, OneJournalPerKey, AnswersDurable, dbVars
<1> QED
  BY <1>1, <1>5, <1>6, <1>7, <1>8, <1>9, Zenon

-----------------------------------------------------------------------------
(* The quiet actions.                                                      *)

\* Starting PostJournal or ExecuteTemplateBatch keeps the invariant.
LEMMA BeginInv ==
    ASSUME PostInv, NEW c \in Clients, Begin(c)
    PROVE  PostInv'
<1> USE DEF PostInv
<1>1. PICK r \in Requests :
         /\ req' = [req EXCEPT ![c] = r[2]]
         /\ pc' = [pc EXCEPT ![c] = IF r[1] = "batch" THEN "preIdem" ELSE "lookup"]
  BY Zenon DEF Begin, Goto
<1>2. r[2] \in Seq(Inputs) /\ Len(r[2]) > 0
  BY RequestsAssumption, Zenon
<1>3. at[c] = 1 /\ got[c] = <<>> /\ pc[c] = "idle"
  BY Zenon DEF Begin, InProgress
<1>4. pc'[c] \in {"preIdem", "lookup"} /\ req'[c] = r[2]
  BY <1>1, Zenon DEF PostTypeOK
<1>5. Quiet(c)
  <2>1. UNCHANGED <<at, got, txJ, txE, idemLock, balLock, readers, dbVars,
                    closeVars, answers>>
    BY Zenon DEF Begin, lockVars
  <2>2. calls' \in Nat
    BY DEF Begin, PostTypeOK
  <2>3. req' \in [Clients -> Seq(Inputs)] /\ \A d \in Clients \ {c} : req'[d] = req[d]
    BY <1>1, <1>2, Zenon DEF PostTypeOK
  <2>4. \E l \in PCs : pc' = [pc EXCEPT ![c] = l]
    BY <1>1, Zenon DEF PCs
  <2> QED
    BY <2>1, <2>2, <2>3, <2>4, Zenon DEF Quiet, PostTypeOK, Holders
<1> QED
  BY <1>2, <1>3, <1>4, <1>5, QuietInv

\* A lock step that moves on has every lock it needs; one that does not moves
\* nothing but the lock.
LEMMA LockIdemInv ==
    ASSUME PostInv, NEW c \in Clients, NEW need, NEW here \in PCs, NEW next \in PCs,
           LockIdem(c, need, here, next), need \subseteq Keys,
           \/ here = "preIdem" /\ next = "preBal"
           \/ here = "idem" /\ next = "recheck" /\ need = {Input(c).key}
    PROVE  PostInv'
<1> USE DEF PostInv
<1>1. UNCHANGED <<req, at, got, txJ, txE, balLock, readers, dbVars, closeVars,
                  answers, calls>> /\ pc[c] = here
  BY Zenon DEF LockIdem
<1>2. at[c] \in 1..Len(req[c]) /\ Len(got[c]) = at[c] - 1
  BY <1>1, Zenon DEF InProgress
<1>3. Input(c)' = Input(c)
  BY <1>1, Zenon DEF Input
<1>4. CASE (\A k \in need : idemLock[k] = c) /\ Goto(c, next) /\ UNCHANGED idemLock
  <2>1. Quiet(c)
    BY <1>1, <1>4, Zenon DEF Quiet, Goto, PostTypeOK, Holders
  <2>2. pc'[c] = next
    BY <1>4, Zenon DEF Goto, PostTypeOK
  <2> QED
    BY <1>1, <1>2, <1>3, <1>4, <2>1, <2>2, QuietInv, Zenon
<1>5. CASE /\ UNCHANGED pc
           /\ \E k \in need : /\ idemLock[k] = NoClient
                              /\ idemLock' = [idemLock EXCEPT ![k] = c]
  <2>1. Quiet(c)
    <3>1. pc' = [pc EXCEPT ![c] = here]
      BY <1>1, <1>5, Zenon DEF PostTypeOK
    <3>2. /\ idemLock' \in [Keys -> Clients \cup {NoClient}]
          /\ \A k \in Keys : idemLock[k] # NoClient => idemLock'[k] = idemLock[k]
      BY <1>5, Zenon DEF PostTypeOK
    <3> QED
      BY <1>1, <3>1, <3>2, Zenon DEF Quiet, PostTypeOK, Holders
  <2>2. pc'[c] = here
    BY <1>1, <1>5, Zenon
  <2> QED
    BY <1>1, <1>2, <2>1, <2>2, QuietInv, Zenon
<1> QED
  BY <1>4, <1>5, Zenon DEF LockIdem

\* The same for the balance locks: acquireBalanceLocks reaches the inserts only
\* with every pair of the input.
LEMMA LockBalanceInv ==
    ASSUME PostInv, NEW c \in Clients, NEW need, NEW here \in PCs, NEW next \in PCs,
           LockBalance(c, need, here, next), need \subseteq Pairs,
           \/ here = "preBal" /\ next = "lookup"
           \/ here = "balance" /\ next = "insert" /\ need = PairsOf(Input(c))
    PROVE  PostInv'
<1> USE DEF PostInv
<1>1. UNCHANGED <<req, at, got, txJ, txE, idemLock, readers, dbVars, closeVars,
                  answers, calls>> /\ pc[c] = here
  BY Zenon DEF LockBalance
<1>2. at[c] \in 1..Len(req[c]) /\ Len(got[c]) = at[c] - 1
  BY <1>1, Zenon DEF InProgress
<1>3. Input(c)' = Input(c) /\ Existing(c)' = Existing(c)
  BY <1>1, Zenon DEF Input, Existing, Visible, dbVars
<1>4. here = "balance" => idemLock[Input(c).key] = c /\ Existing(c) = {}
  BY <1>1, Zenon DEF LocksHeld
<1>5. CASE (\A p \in need : balLock[p] = c) /\ Goto(c, next) /\ UNCHANGED balLock
  <2>1. Quiet(c)
    BY <1>1, <1>5, Zenon DEF Quiet, Goto, PostTypeOK, Holders
  <2>2. pc'[c] = next
    BY <1>5, Zenon DEF Goto, PostTypeOK
  <2> QED
    BY <1>1, <1>2, <1>3, <1>4, <1>5, <2>1, <2>2, QuietInv, Zenon
<1>6. CASE /\ UNCHANGED pc
           /\ \E p \in need : /\ balLock[p] = NoClient
                              /\ balLock' = [balLock EXCEPT ![p] = c]
  <2>1. Quiet(c)
    <3>1. pc' = [pc EXCEPT ![c] = here]
      BY <1>1, <1>6, Zenon DEF PostTypeOK
    <3>2. /\ balLock' \in [Pairs -> Holders]
          /\ \A p \in Pairs : balLock[p] # NoClient => balLock'[p] = balLock[p]
      BY <1>6, Zenon DEF PostTypeOK, Holders
    <3> QED
      BY <1>1, <3>1, <3>2, Zenon DEF Quiet, PostTypeOK, Holders
  <2>2. pc'[c] = here
    BY <1>1, <1>6, Zenon
  <2> QED
    BY <1>1, <1>2, <1>3, <1>4, <2>1, <2>2, QuietInv, Zenon
<1> QED
  BY <1>5, <1>6, Zenon DEF LockBalance

\* The barrier, and the look-ups and the gate when they let the call pass.
LEMMA PassInv ==
    ASSUME PostInv, NEW c \in Clients, NEW next,
           UNCHANGED <<req, at, got, txJ, txE, idemLock, balLock, dbVars,
                       closeVars, answers, calls>>,
           readers' \in SUBSET Clients, Goto(c, next),
           \/ pc[c] = "lookup"  /\ next = "idem"
           \/ pc[c] = "recheck" /\ next = "barrier" /\ Existing(c) = {}
           \/ pc[c] = "barrier" /\ next = "gate"
           \/ pc[c] = "gate"    /\ next = "balance"
    PROVE  PostInv'
<1> USE DEF PostInv
<1>1. at[c] \in 1..Len(req[c]) /\ Len(got[c]) = at[c] - 1
  BY Zenon DEF InProgress
<1>2. Input(c)' = Input(c) /\ Existing(c)' = Existing(c)
  BY Zenon DEF Input, Existing, Visible, dbVars
<1>3. pc'[c] = next
  BY Zenon DEF Goto, PostTypeOK
<1>4. Quiet(c)
  <2>1. next \in PCs
    BY Zenon DEF PCs
  <2> QED
    BY <2>1, Zenon DEF Quiet, Goto, PostTypeOK, Holders
<1>5. /\ next # "idem" => idemLock[Input(c).key] = c
      /\ next # "idem" => Existing(c) = {}
  BY Zenon DEF LocksHeld
<1> QED
  BY <1>1, <1>2, <1>3, <1>4, <1>5, QuietInv, Zenon

-----------------------------------------------------------------------------
(* The end of a transaction, with (COMMIT) or without its rows.            *)

\* Nothing a client publishes or gives up disturbs the others: what they hold,
\* see and are about to publish is under other locks.
LEMMA EndInv ==
    ASSUME PostInv, NEW c \in Clients, EndTx(c),
           UNCHANGED <<seq, closeVars, calls>>,
           answers' \in SUBSET Answers, AnswersDurable',
           \/ journals' = journals /\ entries' = entries
           \/ journals' = journals \cup txJ[c] /\ entries' = entries \cup txE[c]
    PROVE  PostInv'
<1> USE DEF PostInv
<1>1. PostTypeOK'
  <2>1. journals' \in SUBSET Journals /\ entries' \in SUBSET Entries
    BY Zenon DEF PostTypeOK
  <2>2. UNCHANGED <<seq, closing, closes, calls>>
    BY Zenon DEF closeVars
  <2> QED
    BY <2>1, <2>2, EndTxType, Zenon DEF PostTypeOK, Holders
<1>2. /\ pc'[c] = "idle" /\ at'[c] = 1 /\ got'[c] = <<>>
      /\ txJ'[c] = {} /\ txE'[c] = {}
  BY Zenon DEF EndTx, Goto, PostTypeOK
<1>3. ASSUME NEW d \in Clients, d # c
      PROVE  /\ pc'[d] = pc[d] /\ req'[d] = req[d] /\ at'[d] = at[d]
             /\ got'[d] = got[d] /\ txJ'[d] = txJ[d] /\ txE'[d] = txE[d]
             /\ Input(d)' = Input(d)
  BY <1>3, Zenon DEF EndTx, Goto, PostTypeOK, Input
<1>4. \A d \in Clients : d # c =>
         /\ \A k \in Keys : idemLock[k] = d => idemLock'[k] = d
         /\ \A p \in Pairs : balLock[p] = d => balLock'[p] = d
  BY DEF EndTx
<1>5. /\ journals \subseteq journals' /\ journals' \subseteq journals \cup txJ[c]
      /\ entries' \subseteq entries \cup txE[c]
  BY Zenon
<1>6. InProgress'
  <2> SUFFICES ASSUME NEW d \in Clients
               PROVE  InProgress!(d)'
    BY Zenon DEF InProgress
  <2>1. CASE d = c
    BY SMTT(30), <2>1, <1>2, Zenon
  <2>2. CASE d # c
    <3>1. Visible(d) \subseteq Visible(d)'
      BY <2>2, <1>3, <1>5, Zenon DEF Visible
    <3> QED
      BY SMTT(30), <2>2, <3>1, <1>3 DEF InProgress
  <2> QED
    BY <2>1, <2>2, Zenon
<1>7. LocksHeld'
  <2> SUFFICES ASSUME NEW d \in Clients
               PROVE  LocksHeld!(d)'
    BY Zenon DEF LocksHeld
  <2>1. CASE d = c
    BY <2>1, <1>2, Zenon
  <2>2. CASE d # c
    <3>1. pc[d] # "idle" => Input(d).key \in Keys /\ PairsOf(Input(d)) \subseteq Pairs
      BY InputType, Zenon
    <3>2. pc[d] \in {"barrier", "gate", "balance", "insert"} => Existing(d)' = {}
      <4> SUFFICES ASSUME pc[d] \in {"barrier", "gate", "balance", "insert"},
                          NEW j \in Existing(d)'
                   PROVE  FALSE
        BY Zenon
      <4>1. j \in journals \cup txJ[c] \cup txJ[d] /\ j.input.key = Input(d).key
        BY <2>2, <1>3, <1>5, Zenon DEF Existing, Visible
      <4>2. idemLock[Input(d).key] = d /\ Existing(d) = {}
        BY Zenon DEF LocksHeld
      <4>3. j \in txJ[c]
        BY <4>1, <4>2, Zenon DEF Existing, Visible
      <4> QED
        BY <2>2, <4>1, <4>2, <4>3 DEF RowsLocked
    <3> QED
      BY <2>2, <3>1, <3>2, <1>3, <1>4 DEF LocksHeld
  <2> QED
    BY <2>1, <2>2, Zenon
<1>8. RowsLocked'
  <2> SUFFICES ASSUME NEW d \in Clients
               PROVE  RowsLocked!(d)'
    BY Zenon DEF RowsLocked
  <2>1. CASE d = c
    BY <2>1, <1>2, Zenon
  <2>2. CASE d # c
    <3>1. \A j \in txJ[d] : j.input.key \in Keys
      BY DEF PostTypeOK, Journals, Inputs
    <3>2. \A e \in txE[d] : e.pair \in Pairs
      BY DEF PostTypeOK, Entries
    <3> QED
      BY <2>2, <3>1, <3>2, <1>3, <1>4, Zenon DEF RowsLocked
  <2> QED
    BY <2>1, <2>2, Zenon
<1>9. IdsOrdered'
  <2>1. \A e \in entries' : e.id <= seq'
    BY <1>5, Zenon DEF IdsOrdered
  <2>2. ASSUME NEW d \in Clients, NEW e \in txE'[d]
        PROVE  /\ e.id <= seq'
               /\ \A f \in entries' : e.pair = f.pair => f.id < e.id
    <3>1. d # c /\ e \in txE[d]
      BY <2>2, <1>2, <1>3, Zenon
    <3>2. \A f \in txE[c] : e.pair # f.pair
      BY <3>1 DEF RowsLocked
    <3> QED
      BY <3>1, <3>2, <1>5, Zenon DEF IdsOrdered
  <2> QED
    BY <2>1, <2>2, Zenon DEF IdsOrdered
<1>10. KeysUnique'
  <2> SUFFICES ASSUME NEW d \in Clients, NEW i \in Visible(d)', NEW j \in Visible(d)',
                      i.input.key = j.input.key
               PROVE  i = j
    BY Zenon DEF KeysUnique
  <2>1. \A r \in Visible(d)' : r \in Visible(c) \/ (d # c /\ r \in txJ[d])
    BY <1>2, <1>3, <1>5, Zenon DEF Visible
  <2>2. \A r \in Visible(d)' : d # c => r \in Visible(d) \/ r \in txJ[c]
    BY <1>3, <1>5, Zenon DEF Visible
  <2>3. d # c => \A r \in txJ[d], s \in txJ[c] : r.input.key # s.input.key
    BY DEF RowsLocked
  <2> QED
    BY <2>1, <2>2, <2>3, Zenon DEF KeysUnique, Visible
<1>11. OneJournalPerKey'
  BY <1>5, Zenon DEF KeysUnique, OneJournalPerKey, Visible
<1> QED
  BY <1>1, <1>6, <1>7, <1>8, <1>9, <1>10, <1>11, Zenon

\* An error answer (ErrConflict, ErrPeriodClosed) ends the transaction without
\* its rows.
LEMMA RefuseInv ==
    ASSUME PostInv, NEW c \in Clients, pc[c] # "idle",
           NEW why \in {"conflict", "period_closed"}, Refuse(c, why)
    PROVE  PostInv'
<1>1. [input |-> Input(c), res |-> why, uid |-> 0] \in Answers
  BY InputType, Zenon DEF PostInv, Answers
<1>2. answers' \in SUBSET Answers
  BY <1>1, Zenon DEF PostInv, PostTypeOK, Refuse
<1>3. AnswersDurable'
  BY DEF PostInv, AnswersDurable, Refuse, dbVars
<1> QED
  BY <1>2, <1>3, EndInv, Zenon DEF Refuse, dbVars

\* COMMIT publishes the rows and tells the caller about journals that exist.
LEMMA CommitInv ==
    ASSUME PostInv, NEW c \in Clients, Commit(c)
    PROVE  PostInv'
<1> DEFINE New == {[input |-> req[c][i], res |-> "ok", uid |-> got[c][i].uid] :
                      i \in DOMAIN req[c]}
<1>1. /\ pc[c] = "commit" /\ req[c] \in Seq(Inputs) /\ got[c] \in Seq(Journals)
      /\ Len(got[c]) = Len(req[c])
  BY Zenon DEF Commit, PostInv, PostTypeOK, InProgress
<1>2. ASSUME NEW i \in DOMAIN req[c]
      PROVE  /\ got[c][i] \in Journals
             /\ req[c][i] \in Inputs
             /\ got[c][i] \in journals'
             /\ got[c][i] = [uid |-> got[c][i].uid, input |-> req[c][i]]
  <2>1. i \in 1..Len(got[c])
    BY <1>1
  <2>2. got[c][i] \in Journals /\ req[c][i] \in Inputs
    BY <1>1, <2>1
  <2>3. got[c][i] \in Visible(c) /\ got[c][i].input = req[c][i]
    BY <2>1, Zenon DEF PostInv, InProgress
  <2> QED
    BY <2>2, <2>3, Zenon DEF Visible, Commit, Journals
<1>3. New \subseteq Answers
  <2> SUFFICES ASSUME NEW i \in DOMAIN req[c]
               PROVE  [input |-> req[c][i], res |-> "ok", uid |-> got[c][i].uid] \in Answers
    BY Zenon
  <2>1. got[c][i].uid \in Nat /\ req[c][i] \in Inputs
    BY <1>2, Zenon DEF Journals
  <2> QED
    BY <2>1, Zenon DEF Answers
<1>4. answers' \in SUBSET Answers
  BY <1>3, Zenon DEF Commit, PostInv, PostTypeOK
<1>5. AnswersDurable'
  <2> SUFFICES ASSUME NEW a \in answers', a.res = "ok"
               PROVE  [uid |-> a.uid, input |-> a.input] \in journals'
    BY Zenon DEF AnswersDurable
  <2>1. CASE a \in answers
    BY <2>1, Zenon DEF PostInv, AnswersDurable, Commit
  <2>2. CASE a \in New
    BY <2>2, <1>2
  <2> QED
    BY <2>1, <2>2, Zenon DEF Commit
<1> QED
  BY <1>4, <1>5, EndInv, Zenon DEF Commit
-----------------------------------------------------------------------------
(* Moving on to the next input, or to COMMIT, with a journal at hand.      *)

\* Return keeps the invariant whether the journal was found or has just been
\* inserted, provided the new rows are locked, ordered and of a new key.
LEMMA ReturnInv ==
    ASSUME PostInv, NEW c \in Clients, NEW j \in Journals, Return(c, j),
           pc[c] \in {"lookup", "recheck", "insert"},
           UNCHANGED <<req, lockVars, journals, entries, closeVars, answers, calls>>,
           txJ' \in [Clients -> SUBSET Journals],
           txE' \in [Clients -> SUBSET Entries],
           seq' \in Nat, seq <= seq',
           \A d \in Clients \ {c} : txJ'[d] = txJ[d] /\ txE'[d] = txE[d],
           j.input = Input(c),
           txJ[c] \subseteq txJ'[c], j \in journals \cup txJ'[c],
           /\ \A i \in txJ'[c] : idemLock[i.input.key] = c
           /\ \A e \in txE'[c] : balLock[e.pair] = c,
           \A e \in txE'[c] :
              /\ e.id <= seq'
              /\ \A f \in entries : e.pair = f.pair => f.id < e.id,
           \A i1, i2 \in journals \cup txJ'[c] :
              i1.input.key = i2.input.key => i1 = i2
    PROVE  PostInv'
<1> USE DEF PostInv
<1>0. UNCHANGED <<idemLock, balLock, readers, closing, closes>>
  BY Zenon DEF lockVars, closeVars
<1>1. /\ at[c] \in 1..Len(req[c]) /\ Len(got[c]) = at[c] - 1
      /\ req[c] \in Seq(Inputs) /\ got[c] \in Seq(Journals)
  BY Zenon DEF InProgress, PostTypeOK
<1>2. /\ got'[c] = Append(got[c], j)
      /\ at'[c] = IF at[c] < Len(req[c]) THEN at[c] + 1 ELSE at[c]
      /\ pc'[c] = IF at[c] < Len(req[c]) THEN "lookup" ELSE "commit"
  BY Zenon DEF Return, Goto, PostTypeOK
<1>3. \A d \in Clients : d # c =>
         /\ pc'[d] = pc[d] /\ at'[d] = at[d] /\ got'[d] = got[d]
         /\ txJ'[d] = txJ[d] /\ txE'[d] = txE[d]
  BY Zenon DEF Return, Goto, PostTypeOK
<1>4. \A d \in Clients : d # c =>
         Input(d)' = Input(d) /\ Visible(d)' = Visible(d) /\ Existing(d)' = Existing(d)
  BY <1>3 DEF Input, Visible, Existing
<1>5. PostTypeOK'
  <2>1. Append(got[c], j) \in Seq(Journals)
    BY <1>1
  <2>2. pc' \in [Clients -> PCs]
    BY Zenon DEF Return, Goto, PostTypeOK, PCs
  <2>4. at' \in [Clients -> Nat \ {0}]
    <3>1. at[c] + 1 \in Nat \ {0}
      BY <1>1
    <3> QED
      BY <3>1, Zenon DEF Return, PostTypeOK
  <2>3. got' \in [Clients -> Seq(Journals)]
    BY <2>1, Zenon DEF Return, PostTypeOK
  <2> QED
    BY <1>0, <2>2, <2>3, <2>4, Zenon DEF PostTypeOK
<1>6. InProgress'
  <2> SUFFICES ASSUME NEW d \in Clients
               PROVE  InProgress!(d)'
    BY Zenon DEF InProgress
  <2>1. CASE d = c
    <3>1. Len(got'[c]) = at[c]
      BY <1>1, <1>2
    <3>2. \A i \in 1..Len(got'[c]) :
             got'[c][i] \in Visible(c)' /\ got'[c][i].input = req[c][i]
      <4> SUFFICES ASSUME NEW i \in 1..Len(got'[c])
                   PROVE  got'[c][i] \in Visible(c)' /\ got'[c][i].input = req[c][i]
        BY Zenon
      <4>1. CASE i = at[c]
        <5>1. got'[c][i] = j
          BY <1>1, <1>2, <4>1
        <5> QED
          BY <5>1, <4>1, Zenon DEF Visible, Input
      <4>2. CASE i # at[c]
        <5>1. i \in 1..Len(got[c]) /\ got'[c][i] = got[c][i]
          BY <1>1, <1>2, <3>1, <4>2
        <5> QED
          BY <5>1 DEF InProgress, Visible
      <4> QED
        BY <4>1, <4>2, Zenon
    <3> QED
      BY <2>1, <1>1, <1>2, <3>1, <3>2, SMTT(30)
  <2>2. CASE d # c
    BY <2>2, <1>3, <1>4 DEF InProgress
  <2> QED
    BY <2>1, <2>2, Zenon
<1>7. LocksHeld'
  BY <1>0, <1>2, <1>3, <1>4, SMTT(30) DEF LocksHeld
<1>8. RowsLocked'
  BY <1>0, <1>3 DEF RowsLocked
<1>9. IdsOrdered'
  <2>1. \A e \in entries : e.id <= seq'
    BY DEF IdsOrdered, PostTypeOK, Entries
  <2>2. \A d \in Clients : d # c => \A e \in txE[d] : e.id <= seq'
    BY DEF IdsOrdered, PostTypeOK, Entries
  <2> QED
    BY <1>3, <2>1, <2>2, Zenon DEF IdsOrdered
<1>10. KeysUnique'
  BY <1>4, Zenon DEF KeysUnique, Visible
<1>11. OneJournalPerKey' /\ AnswersDurable'
  BY Zenon DEF OneJournalPerKey, AnswersDurable
<1> QED
  BY <1>5, <1>6, <1>7, <1>8, <1>9, <1>10, <1>11, Zenon

\* Finding the journal of the key: ensureJournalMatchesInput returns it or
\* refuses the call.
LEMMA MatchInv ==
    ASSUME PostInv, NEW c \in Clients, pc[c] \in {"lookup", "recheck"},
           NEW j \in Existing(c), MatchInput(c, j)
    PROVE  PostInv'
<1>1. CASE j.input # Input(c) /\ Refuse(c, "conflict")
  BY <1>1, RefuseInv, Zenon
<1>2. CASE /\ j.input = Input(c) /\ Return(c, j)
           /\ UNCHANGED <<req, txJ, txE, lockVars, dbVars, closeVars, answers, calls>>
  <2>1. j \in Journals /\ j \in journals \cup txJ[c]
    BY Zenon DEF Existing, Visible, PostInv, PostTypeOK
  <2>2. UNCHANGED <<journals, entries, seq>> /\ seq \in Nat
    BY <1>2, Zenon DEF dbVars, PostInv, PostTypeOK
  <2>3. /\ \A i \in txJ[c] : idemLock[i.input.key] = c
        /\ \A e \in txE[c] : balLock[e.pair] = c
    BY Zenon DEF PostInv, RowsLocked
  <2>4. \A e \in txE[c] :
           e.id <= seq /\ \A f \in entries : e.pair = f.pair => f.id < e.id
    BY Zenon DEF PostInv, IdsOrdered
  <2>5. \A i1, i2 \in journals \cup txJ[c] : i1.input.key = i2.input.key => i1 = i2
    BY Zenon DEF PostInv, KeysUnique, Visible
  <2>6. txJ \in [Clients -> SUBSET Journals] /\ txE \in [Clients -> SUBSET Entries]
    BY Zenon DEF PostInv, PostTypeOK
  <2>7. seq <= seq
    BY <2>2
  <2> QED
    BY <1>2, <2>1, <2>2, <2>3, <2>4, <2>5, <2>6, <2>7, ReturnInv, Zenon
<1> QED
  BY <1>1, <1>2, Zenon DEF MatchInput

\* The inserts: the locks cover the new rows, the key is new, and their ids are
\* above everything committed.
LEMMA InsertInv ==
    ASSUME PostInv, NEW c \in Clients, Insert(c)
    PROVE  PostInv'
<1> DEFINE j == [uid |-> seq + Len(Input(c).legs) + 1, input |-> Input(c)]
<1>1. /\ pc[c] = "insert" /\ pc[c] # "idle" /\ Return(c, j)
      /\ txJ' = [txJ EXCEPT ![c] = @ \cup {j}]
      /\ txE' = [txE EXCEPT ![c] = @ \cup NewEntries(c)]
      /\ seq' = seq + Len(Input(c).legs) + 1
      /\ UNCHANGED <<req, lockVars, journals, entries, closeVars, answers, calls>>
  BY Zenon DEF Insert
<1>2. /\ seq' \in Nat /\ j \in Journals /\ NewEntries(c) \subseteq Entries
      /\ \A e \in NewEntries(c) :
            e.pair \in PairsOf(Input(c)) /\ e.id > seq /\ e.id <= seq'
  BY <1>1, NewRowsType, Zenon DEF PostInv
<1>3. seq \in Nat /\ Len(Input(c).legs) \in Nat
  BY <1>1, InputType, Zenon DEF PostInv, PostTypeOK
<1>4. /\ idemLock[Input(c).key] = c /\ Existing(c) = {}
      /\ \A p \in PairsOf(Input(c)) : balLock[p] = c
  BY <1>1, Zenon DEF PostInv, LocksHeld
<1>5. /\ txJ' \in [Clients -> SUBSET Journals] /\ txE' \in [Clients -> SUBSET Entries]
      /\ txJ'[c] = txJ[c] \cup {j} /\ txE'[c] = txE[c] \cup NewEntries(c)
      /\ \A d \in Clients \ {c} : txJ'[d] = txJ[d] /\ txE'[d] = txE[d]
  BY <1>1, <1>2, Zenon DEF PostInv, PostTypeOK
<1>6. seq <= seq'
  BY <1>1, <1>3
<1>7. \A i \in txJ'[c] : idemLock[i.input.key] = c
  BY <1>4, <1>5 DEF PostInv, RowsLocked
<1>8. \A e \in txE'[c] : balLock[e.pair] = c
  BY <1>2, <1>4, <1>5, Zenon DEF PostInv, RowsLocked
<1>9. ASSUME NEW e \in txE'[c]
      PROVE  e.id <= seq' /\ \A f \in entries : e.pair = f.pair => f.id < e.id
  <2>1. /\ \A f \in entries : f.id <= seq /\ f.id \in Nat
        /\ e.id \in Nat
    BY SMTT(30), <1>5, Zenon DEF PostInv, IdsOrdered, PostTypeOK, Entries
  <2>2. CASE e \in txE[c]
    BY <2>1, <2>2, <1>2, <1>3, <1>6 DEF PostInv, IdsOrdered
  <2>3. CASE e \in NewEntries(c)
    BY <2>1, <2>3, <1>2, <1>3
  <2> QED
    BY <2>2, <2>3, <1>5, Zenon
<1>10. \A i1, i2 \in journals \cup txJ'[c] : i1.input.key = i2.input.key => i1 = i2
  <2>1. \A i \in journals \cup txJ[c] : i.input.key # j.input.key
    BY <1>4, Zenon DEF Existing, Visible
  <2>2. \A i1, i2 \in journals \cup txJ[c] : i1.input.key = i2.input.key => i1 = i2
    BY Zenon DEF PostInv, KeysUnique, Visible
  <2> QED
    BY <2>1, <2>2, <1>5, Zenon
<1>11. j.input = Input(c) /\ txJ[c] \subseteq txJ'[c] /\ j \in journals \cup txJ'[c]
  BY <1>5, Zenon
<1> HIDE DEF j
<1> QED
  BY <1>1, <1>2, <1>5, <1>6, <1>7, <1>8, <1>9, <1>10, <1>11, ReturnInv, Zenon

-----------------------------------------------------------------------------
(* Every step.                                                             *)

\* The invariant is inductive: every step of a client keeps it.
LEMMA PostNextInv == PostInv /\ [PostNext]_postVars => PostInv'
<1> SUFFICES ASSUME PostInv, [PostNext]_postVars
             PROVE  PostInv'
  BY ZenonT(30)
<1>1. CASE UNCHANGED postVars
  BY <1>1 DEF postVars, txVars, lockVars, dbVars, closeVars, PostInv, PostTypeOK,
     InProgress, LocksHeld, RowsLocked, IdsOrdered, KeysUnique, OneJournalPerKey,
     AnswersDurable, Visible, Existing, Input, PairsOf
<1>2. ASSUME NEW c \in Clients, Begin(c)
      PROVE  PostInv'
  BY <1>2, BeginInv, Zenon
<1>3. ASSUME NEW c \in Clients, Statement(c)
      PROVE  PostInv'
  <2>1. CASE PreLockIdem(c)
    <3>1. KeysOf(req[c]) \subseteq Keys
      BY RequestTypes, Zenon DEF PostInv
    <3> QED
      BY <2>1, <3>1, LockIdemInv, Zenon DEF PreLockIdem, PCs
  <2>2. CASE PreLockBal(c)
    <3>1. AllPairs(req[c]) \subseteq Pairs
      BY RequestTypes, Zenon DEF PostInv
    <3> QED
      BY <2>2, <3>1, LockBalanceInv, Zenon DEF PreLockBal, PCs
  <2>3. CASE Lookup(c)
    <3>1. pc[c] = "lookup"
      BY <2>3, Zenon DEF Lookup, LookupStep
    <3>2. CASE /\ Goto(c, "idem")
               /\ UNCHANGED <<req, at, got, txJ, txE, lockVars, dbVars, closeVars,
                              answers, calls>>
      BY <3>1, <3>2, PassInv, Zenon DEF lockVars, PostInv, PostTypeOK
    <3>3. CASE \E j \in Existing(c) : MatchInput(c, j)
      BY <3>1, <3>3, MatchInv, Zenon
    <3> QED
      BY <2>3, <3>2, <3>3, Zenon DEF Lookup, LookupStep
  <2>4. CASE Idem(c)
    <3>1. {Input(c).key} \subseteq Keys
      BY <2>4, InputType, Zenon DEF PostInv, Idem, LockIdem
    <3> QED
      BY <2>4, <3>1, LockIdemInv DEF Idem, PCs
  <2>5. CASE Recheck(c)
    <3>1. pc[c] = "recheck"
      BY <2>5, Zenon DEF Recheck, LookupStep
    <3>2. CASE /\ Existing(c) = {}
               /\ Goto(c, "barrier")
               /\ UNCHANGED <<req, at, got, txJ, txE, lockVars, dbVars, closeVars,
                              answers, calls>>
      BY <3>1, <3>2, PassInv, Zenon DEF lockVars, PostInv, PostTypeOK
    <3>3. CASE \E j \in Existing(c) : MatchInput(c, j)
      BY <3>1, <3>3, MatchInv, Zenon
    <3> QED
      BY <2>5, <3>2, <3>3, Zenon DEF Recheck, LookupStep
  <2>6. CASE Barrier(c)
    BY <2>6, PassInv, Zenon DEF Barrier, PostInv, PostTypeOK
  <2>7. CASE Gate(c)
    <3>1. CASE Refuse(c, "period_closed")
      BY <2>7, <3>1, RefuseInv, Zenon DEF Gate
    <3>2. CASE /\ Goto(c, "balance")
               /\ UNCHANGED <<req, at, got, txJ, txE, lockVars, dbVars, closeVars,
                              answers, calls>>
      BY <2>7, <3>2, PassInv, Zenon DEF Gate, lockVars, PostInv, PostTypeOK
    <3> QED
      BY <2>7, <3>1, <3>2, Zenon DEF Gate
  <2>8. CASE Balance(c)
    <3>1. PairsOf(Input(c)) \subseteq Pairs
      BY <2>8, InputType, Zenon DEF PostInv, Balance, LockBalance
    <3> QED
      BY <2>8, <3>1, LockBalanceInv, Zenon DEF Balance, PCs
  <2>9. CASE Insert(c)
    BY <2>9, InsertInv, Zenon
  <2> QED
    BY <1>3, <2>1, <2>2, <2>3, <2>4, <2>5, <2>6, <2>7, <2>8, <2>9, Zenon DEF Statement
<1>4. ASSUME NEW c \in Clients, Commit(c)
      PROVE  PostInv'
  BY <1>4, CommitInv, Zenon
<1>5. ASSUME NEW c \in Clients, Rollback(c)
      PROVE  PostInv'
  <2>1. AnswersDurable' /\ answers' \in SUBSET Answers
    BY <1>5, Zenon DEF Rollback, PostInv, AnswersDurable, PostTypeOK, dbVars
  <2> QED
    BY <1>5, <2>1, EndInv, Zenon DEF Rollback, dbVars
<1> QED
  BY <1>1, <1>2, <1>3, <1>4, <1>5, Zenon DEF PostNext, Step

\* The invariant holds when nothing has been called yet.
LEMMA PostInitInv == PostInit => PostInv
<1> SUFFICES ASSUME PostInit
             PROVE  PostInv
  BY Zenon
<1>1. PostTypeOK
  <2>1. <<>> \in Seq(Inputs) /\ <<>> \in Seq(Journals)
    OBVIOUS
  <2> QED
    <3>1. /\ pc \in [Clients -> PCs] /\ at \in [Clients -> Nat \ {0}]
          /\ txJ \in [Clients -> SUBSET Journals]
          /\ txE \in [Clients -> SUBSET Entries]
          /\ idemLock \in [Keys -> Clients \cup {NoClient}]
          /\ balLock \in [Pairs -> Clients \cup Others \cup {NoClient}]
      BY DEF PostInit, PCs
    <3>2. req \in [Clients -> Seq(Inputs)] /\ got \in [Clients -> Seq(Journals)]
      BY <2>1, Zenon DEF PostInit
    <3> QED
      BY <3>1, <3>2, Zenon DEF PostInit, PostTypeOK
<1>2. \A c \in Clients : /\ pc[c] = "idle" /\ at[c] = 1 /\ got[c] = <<>>
                         /\ txJ[c] = {} /\ txE[c] = {}
  BY Zenon DEF PostInit
<1>3. journals = {} /\ entries = {} /\ answers = {}
  BY Zenon DEF PostInit
<1>4. InProgress
  BY <1>2 DEF InProgress
<1> QED
  BY <1>1, <1>2, <1>3, <1>4, Zenon DEF PostInv, LocksHeld, RowsLocked, IdsOrdered,
     KeysUnique, OneJournalPerKey, AnswersDurable, Visible

\* The answer a step gives about a key that already has a journal.
LEMMA RetryStep ==
    ASSUME PostInv, [PostNext]_postVars,
           NEW a \in answers' \ answers, NEW j \in journals,
           a.input.key = j.input.key
    PROVE  IF a.input = j.input THEN a.res = "ok" /\ a.uid = j.uid
                                ELSE a.res = "conflict"
<1>1. PICK c \in Clients :
         \/ Commit(c)
         \/ pc[c] = "gate" /\ Refuse(c, "period_closed")
         \/ \E i \in Existing(c) : i.input # Input(c) /\ Refuse(c, "conflict")
  BY ZenonT(30), Zenon DEF PostNext, postVars, Step, Statement, Begin, PreLockIdem, PreLockBal,
     Lookup, Idem, Recheck, Barrier, Gate, Balance, Insert, Rollback, LockIdem,
     LockBalance, LookupStep, MatchInput
<1>2. CASE Commit(c)
  <2>1. PICK i \in DOMAIN req[c] :
           a = [input |-> req[c][i], res |-> "ok", uid |-> got[c][i].uid]
    BY <1>2, Zenon DEF Commit
  <2>2. i \in 1..Len(got[c])
    <3>1. req[c] \in Seq(Inputs) /\ Len(got[c]) = Len(req[c])
      BY <1>2, Zenon DEF Commit, PostInv, PostTypeOK, InProgress
    <3> QED
      BY SMTT(30), <3>1, Zenon
  <2>3. got[c][i] \in Visible(c) /\ got[c][i].input = req[c][i]
    BY <2>2, Zenon DEF PostInv, InProgress
  <2>4. got[c][i] = j
    BY <2>1, <2>3, Zenon DEF PostInv, KeysUnique, Visible
  <2> QED
    BY <2>1, <2>3, <2>4, Zenon
<1>3. CASE pc[c] = "gate" /\ Refuse(c, "period_closed")
  <2>1. Existing(c) = {} /\ a.input = Input(c)
    BY <1>3 DEF PostInv, LocksHeld, Refuse
  <2> QED
    BY <2>1, Zenon DEF Existing, Visible
<1>4. CASE \E i \in Existing(c) : i.input # Input(c) /\ Refuse(c, "conflict")
  <2>1. PICK i \in Existing(c) : i.input # Input(c) /\ Refuse(c, "conflict")
    BY <1>4, Zenon
  <2>2. a = [input |-> Input(c), res |-> "conflict", uid |-> 0]
    BY <2>1, Zenon DEF Refuse
  <2>3. i = j
    BY <2>2, Zenon DEF PostInv, KeysUnique, Visible, Existing
  <2> QED
    BY <2>1, <2>2, <2>3, Zenon
<1> QED
  BY <1>1, <1>2, <1>3, <1>4, Zenon

\* The entries a step makes visible come after those of their pair.
LEMMA VisibleStep ==
    ASSUME PostInv, [PostNext]_postVars,
           NEW e \in entries' \ entries, NEW f \in entries, e.pair = f.pair
    PROVE  f.id < e.id
<1>1. PICK c \in Clients : entries' = entries \cup txE[c]
  BY Zenon DEF PostNext, postVars, dbVars, Step, Statement, Begin, PreLockIdem, PreLockBal,
     Lookup, Idem, Recheck, Barrier, Gate, Balance, Insert, Rollback, LockIdem,
     LockBalance, LookupStep, MatchInput, Refuse, Commit
<1> QED
  BY <1>1, ZenonT(30) DEF PostInv, IdsOrdered

-----------------------------------------------------------------------------
(* The theorems.                                                           *)

\* Every behaviour of the write path stays within the invariant.
THEOREM PostInvariant == PostSpec => []PostInv
BY PostInitInv, PostNextInv, PTL DEF PostSpec

\* Every variable of the write path keeps its type, whatever the calls.
THEOREM PostTypeCorrect == PostSpec => []PostTypeOK
<1>1. PostInv => PostTypeOK
  BY Zenon DEF PostInv
<1> QED
  BY <1>1, PostInvariant, PTL

\* PostJournal and ExecuteTemplateBatch commit at most one journal per
\* idempotency key, for any number of concurrent callers, retries and crashes.
THEOREM IdempotentPosting == PostSpec => []OneJournalPerKey
<1>1. PostInv => OneJournalPerKey
  BY Zenon DEF PostInv
<1> QED
  BY <1>1, PostInvariant, PTL

\* A journal a caller has been told about is committed, with its payload.
THEOREM DurableAnswers == PostSpec => []AnswersDurable
<1>1. PostInv => AnswersDurable
  BY Zenon DEF PostInv
<1> QED
  BY <1>1, PostInvariant, PTL

\* A retry of a committed key gets its journal back, another payload under the
\* key gets a conflict, and nothing else is ever answered.
THEOREM RetriesAnswered == PostSpec => RetryAnswered
<1>1. PostInv /\ [PostNext]_postVars =>
        [\A a \in answers' \ answers, j \in journals :
            a.input.key = j.input.key =>
               IF a.input = j.input THEN a.res = "ok" /\ a.uid = j.uid
                                    ELSE a.res = "conflict"]_postVars
  BY RetryStep, Zenon
<1> QED
  BY <1>1, PostInvariant, PTL DEF PostSpec, RetryAnswered

\* Entries of one (holder, currency) pair become visible in id order.
THEOREM VisibleInOrder == PostSpec => VisibleInIdOrder
<1>1. PostInv /\ [PostNext]_postVars =>
        [\A e \in entries' \ entries, f \in entries :
            e.pair = f.pair => f.id < e.id]_postVars
  BY VisibleStep, Zenon
<1> QED
  BY <1>1, PostInvariant, PTL DEF PostSpec, VisibleInIdOrder

-----------------------------------------------------------------------------
(* The advisory locks: the clients never wait for one another in a circle. *)

\* The locks of a client, by the place it has reached: a batch takes all its
\* keys and then all its pairs in order; a single post takes its only key and
\* then its pairs in order.
NoBal(c)     == \A p \in Pairs : balLock[p] # c
NoIdem(c)    == \A k \in Keys : idemLock[k] # c
AllKeysHeld(c)  == \A k \in KeysOf(req[c]) : idemLock[k] = c
AllPairsHeld(c) == \A p \in AllPairs(req[c]) : balLock[p] = c

KeysInOrder(c, need) ==
    \A k \in Keys : idemLock[k] = c =>
        k \in need /\ \A l \in need : l < k => idemLock[l] = c
PairsInOrder(c, need) ==
    \A p \in Pairs : balLock[p] = c =>
        p \in need /\ \A q \in need : q < p => balLock[q] = c

OrderAt(c) ==
    /\ pc[c] = "idle"    => NoBal(c) /\ NoIdem(c)
    /\ pc[c] = "preIdem" => NoBal(c) /\ KeysInOrder(c, KeysOf(req[c]))
    /\ pc[c] = "preBal"  => AllKeysHeld(c) /\ PairsInOrder(c, AllPairs(req[c]))
    /\ pc[c] \in {"lookup", "idem", "recheck", "barrier", "gate", "balance", "insert"} =>
          \/ AllKeysHeld(c) /\ AllPairsHeld(c)
          \/ /\ Len(req[c]) = 1
             /\ pc[c] = "lookup" => NoIdem(c)
             /\ pc[c] = "idem"   => KeysInOrder(c, {Input(c).key})
             /\ pc[c] \in {"lookup", "idem", "recheck", "barrier", "gate"} => NoBal(c)
             /\ pc[c] = "balance" => PairsInOrder(c, PairsOf(Input(c)))
LockOrder == \A c \in Clients : OrderAt(c)

-----------------------------------------------------------------------------
(* No circular wait.  LockOrder says which locks a client holds at every   *)
(* place of its call.                                                      *)

\* Client c holds the same locks before and after.
SameLocks(c) ==
    /\ \A k \in Keys : idemLock'[k] = c <=> idemLock[k] = c
    /\ \A p \in Pairs : balLock'[p] = c <=> balLock[p] = c

\* What LockOrder says of c depends on c's own locks and place only.
LEMMA LockOrderFrame ==
    ASSUME PostInv, NEW c \in Clients, OrderAt(c), SameLocks(c),
           pc'[c] = pc[c], req'[c] = req[c], at'[c] = at[c]
    PROVE  OrderAt(c)'
<1>1. Input(c)' = Input(c)
  BY Zenon DEF Input
<1>2. KeysOf(req[c]) \subseteq Keys /\ AllPairs(req[c]) \subseteq Pairs
  BY RequestTypes, Zenon DEF PostInv
<1>3. pc[c] # "idle" => Input(c).key \in Keys /\ PairsOf(Input(c)) \subseteq Pairs
  BY InputType, Zenon DEF PostInv
<1>4. /\ NoBal(c) => NoBal(c)'
      /\ NoIdem(c) => NoIdem(c)'
      /\ AllKeysHeld(c) => AllKeysHeld(c)'
      /\ AllPairsHeld(c) => AllPairsHeld(c)'
  BY <1>2, Zenon DEF SameLocks, NoBal, NoIdem, AllKeysHeld, AllPairsHeld
<1>5. /\ KeysInOrder(c, KeysOf(req[c])) => KeysInOrder(c, KeysOf(req[c]))'
      /\ PairsInOrder(c, AllPairs(req[c])) => PairsInOrder(c, AllPairs(req[c]))'
  BY <1>2, Zenon DEF SameLocks, KeysInOrder, PairsInOrder
<1>6. pc[c] # "idle" =>
        /\ KeysInOrder(c, {Input(c).key}) => KeysInOrder(c, {Input(c).key})'
        /\ PairsInOrder(c, PairsOf(Input(c))) => PairsInOrder(c, PairsOf(Input(c)))'
  BY <1>1, <1>3, Zenon DEF SameLocks, KeysInOrder, PairsInOrder
<1> QED
  BY <1>4, <1>5, <1>6, Zenon DEF OrderAt

\* Taking the next idempotency lock, or moving on with all of them.
LEMMA LockIdemOrder ==
    ASSUME PostInv, NEW c \in Clients, OrderAt(c),
           \/ PreLockIdem(c)
           \/ Idem(c)
    PROVE  OrderAt(c)'
<1>1. /\ pc[c] \in {"preIdem", "idem"}
      /\ UNCHANGED <<req, at, balLock>>
      /\ Input(c)' = Input(c)
  BY Zenon DEF PreLockIdem, Idem, LockIdem, Input
<1>2. KeysOf(req[c]) \subseteq Keys /\ Input(c).key \in Keys
  BY <1>1, RequestTypes, InputType, Zenon DEF PostInv
<1>3. /\ NoBal(c)' <=> NoBal(c)
      /\ AllPairsHeld(c)' <=> AllPairsHeld(c)
      /\ PairsInOrder(c, AllPairs(req[c]))' <=> PairsInOrder(c, AllPairs(req[c]))
  BY <1>1, Zenon DEF NoBal, AllPairsHeld, PairsInOrder
<1>4. ASSUME NEW need, need \subseteq Keys, KeysInOrder(c, need),
             NEW k \in need, \A l \in need : l < k => idemLock[l] = c,
             idemLock' = [idemLock EXCEPT ![k] = c]
      PROVE  \A m \in Keys : idemLock'[m] = c =>
                m \in need /\ \A l \in need : l < m => idemLock'[l] = c
  BY <1>4, Zenon DEF KeysInOrder, PostInv, PostTypeOK
<1>5. CASE PreLockIdem(c)
  <2>1. pc[c] = "preIdem" /\ NoBal(c) /\ KeysInOrder(c, KeysOf(req[c]))
    BY ZenonT(30), <1>5, Zenon DEF PreLockIdem, LockIdem, OrderAt
  <2>2. CASE AllKeysHeld(c) /\ Goto(c, "preBal") /\ UNCHANGED idemLock
    <3>1. pc'[c] = "preBal" /\ AllKeysHeld(c)'
      BY <2>2, <1>1, Zenon DEF Goto, PostInv, PostTypeOK, AllKeysHeld
    <3>2. PairsInOrder(c, AllPairs(req[c]))
      BY <2>1, Zenon DEF NoBal, PairsInOrder
    <3> QED
      BY <3>1, <3>2, <1>1, <1>3, Zenon DEF OrderAt
  <2>3. CASE /\ UNCHANGED pc
             /\ \E k \in KeysOf(req[c]) :
                  /\ \A l \in KeysOf(req[c]) : l < k => idemLock[l] = c
                  /\ idemLock' = [idemLock EXCEPT ![k] = c]
    <3>1. KeysInOrder(c, KeysOf(req[c]))'
      BY <2>1, <2>3, <1>1, <1>2, <1>4, Zenon DEF KeysInOrder
    <3> QED
      BY <2>1, <2>3, <3>1, <1>1, <1>3, Zenon DEF OrderAt
  <2> QED
    BY <1>5, <2>2, <2>3, Zenon DEF PreLockIdem, LockIdem, AllKeysHeld
<1>6. CASE Idem(c)
  <2>1. /\ pc[c] = "idem"
        /\ \/ AllKeysHeld(c) /\ AllPairsHeld(c)
           \/ Len(req[c]) = 1 /\ KeysInOrder(c, {Input(c).key}) /\ NoBal(c)
    BY <1>6, Zenon DEF Idem, LockIdem, OrderAt
  <2>2. CASE Goto(c, "recheck") /\ UNCHANGED idemLock
    <3>1. pc'[c] = "recheck" /\ (AllKeysHeld(c) => AllKeysHeld(c)')
      BY <2>2, <1>1, Zenon DEF Goto, PostInv, PostTypeOK, AllKeysHeld
    <3> QED
      BY <2>1, <3>1, <1>1, <1>3, Zenon DEF OrderAt
  <2>3. CASE /\ UNCHANGED pc
             /\ \E k \in {Input(c).key} :
                  /\ \A l \in {Input(c).key} : l < k => idemLock[l] = c
                  /\ idemLock' = [idemLock EXCEPT ![k] = c]
    <3>1. AllKeysHeld(c) => AllKeysHeld(c)'
      BY <2>3, <1>1, <1>2, Zenon DEF AllKeysHeld, PostInv, PostTypeOK
    <3>2. KeysInOrder(c, {Input(c).key}) => KeysInOrder(c, {Input(c).key})'
      BY <2>3, <1>1, <1>2, <1>4 DEF KeysInOrder
    <3> QED
      BY <2>1, <2>3, <3>1, <3>2, <1>1, <1>3, Zenon DEF OrderAt
  <2> QED
    BY <1>6, <2>2, <2>3, Zenon DEF Idem, LockIdem
<1> QED
  BY <1>5, <1>6, Zenon

\* The same for the balance locks.
LEMMA LockBalanceOrder ==
    ASSUME PostInv, NEW c \in Clients, OrderAt(c),
           \/ PreLockBal(c)
           \/ Balance(c)
    PROVE  OrderAt(c)'
<1>1. /\ pc[c] \in {"preBal", "balance"}
      /\ UNCHANGED <<req, at, idemLock>>
      /\ Input(c)' = Input(c)
  BY Zenon DEF PreLockBal, Balance, LockBalance, Input
<1>2. AllPairs(req[c]) \subseteq Pairs /\ PairsOf(Input(c)) \subseteq Pairs
  BY <1>1, RequestTypes, InputType, Zenon DEF PostInv
<1>3. AllKeysHeld(c)' <=> AllKeysHeld(c)
  BY <1>1, Zenon DEF AllKeysHeld
<1>4. ASSUME NEW need, need \subseteq Pairs, PairsInOrder(c, need),
             NEW p \in need, \A q \in need : q < p => balLock[q] = c,
             balLock' = [balLock EXCEPT ![p] = c]
      PROVE  \A m \in Pairs : balLock'[m] = c =>
                m \in need /\ \A q \in need : q < m => balLock'[q] = c
  BY <1>4, Zenon DEF PairsInOrder, PostInv, PostTypeOK
<1>5. CASE PreLockBal(c)
  <2>1. pc[c] = "preBal" /\ AllKeysHeld(c) /\ PairsInOrder(c, AllPairs(req[c]))
    BY ZenonT(30), <1>5, Zenon DEF PreLockBal, LockBalance, OrderAt
  <2>2. CASE AllPairsHeld(c) /\ Goto(c, "lookup") /\ UNCHANGED balLock
    <3>1. pc'[c] = "lookup" /\ AllPairsHeld(c)'
      BY <2>2, <1>1, Zenon DEF Goto, PostInv, PostTypeOK, AllPairsHeld
    <3> QED
      BY <2>1, <3>1, <1>3, Zenon DEF OrderAt
  <2>3. CASE /\ UNCHANGED pc
             /\ \E p \in AllPairs(req[c]) :
                  /\ \A q \in AllPairs(req[c]) : q < p => balLock[q] = c
                  /\ balLock' = [balLock EXCEPT ![p] = c]
    <3>1. PairsInOrder(c, AllPairs(req[c]))'
      BY <2>1, <2>3, <1>1, <1>2, <1>4, Zenon DEF PairsInOrder
    <3> QED
      BY <2>1, <2>3, <3>1, <1>1, <1>3, Zenon DEF OrderAt
  <2> QED
    BY <1>5, <2>2, <2>3, Zenon DEF PreLockBal, LockBalance, AllPairsHeld
<1>6. CASE Balance(c)
  <2>1. /\ pc[c] = "balance"
        /\ \/ AllKeysHeld(c) /\ AllPairsHeld(c)
           \/ Len(req[c]) = 1 /\ PairsInOrder(c, PairsOf(Input(c)))
    BY ZenonT(30), <1>6, Zenon DEF Balance, LockBalance, OrderAt
  <2>2. CASE Goto(c, "insert") /\ UNCHANGED balLock
    <3>1. pc'[c] = "insert" /\ (AllPairsHeld(c) => AllPairsHeld(c)')
      BY <2>2, <1>1, Zenon DEF Goto, PostInv, PostTypeOK, AllPairsHeld
    <3> QED
      BY <2>1, <3>1, <1>1, <1>3, Zenon DEF OrderAt
  <2>3. CASE /\ UNCHANGED pc
             /\ \E p \in PairsOf(Input(c)) :
                  /\ \A q \in PairsOf(Input(c)) : q < p => balLock[q] = c
                  /\ balLock' = [balLock EXCEPT ![p] = c]
    <3>1. AllPairsHeld(c) => AllPairsHeld(c)'
      BY <2>3, <1>1, <1>2, Zenon DEF AllPairsHeld, PostInv, PostTypeOK
    <3>2. PairsInOrder(c, PairsOf(Input(c))) => PairsInOrder(c, PairsOf(Input(c)))'
      BY <2>3, <1>1, <1>2, <1>4, Zenon DEF PairsInOrder
    <3> QED
      BY <2>1, <2>3, <3>1, <3>2, <1>1, <1>3, Zenon DEF OrderAt
  <2> QED
    BY <1>6, <2>2, <2>3, Zenon DEF Balance, LockBalance
<1> QED
  BY <1>5, <1>6, Zenon

\* Every step of c leaves the place and the locks of the others alone.
LEMMA OthersKeep ==
    ASSUME PostInv, NEW c \in Clients, Begin(c) \/ Step(c) \/ Rollback(c),
           NEW d \in Clients, d # c
    PROVE  /\ SameLocks(d)
           /\ pc'[d] = pc[d] /\ req'[d] = req[d] /\ at'[d] = at[d]
<1>0. d # NoClient /\ c # NoClient
  BY ClientsAssumption, Zenon
<1>1. CASE EndTx(c)
  BY <1>0, <1>1, Zenon DEF EndTx, Goto, SameLocks, PostInv, PostTypeOK
<1>2. CASE /\ idemLock' = idemLock \/ \E k \in Keys : /\ idemLock[k] = NoClient
                                                      /\ idemLock' = [idemLock EXCEPT ![k] = c]
           /\ balLock' = balLock \/ \E p \in Pairs : /\ balLock[p] = NoClient
                                                     /\ balLock' = [balLock EXCEPT ![p] = c]
           /\ pc' = pc \/ \E l \in PCs : pc' = [pc EXCEPT ![c] = l]
           /\ req' = req \/ \E r : req' = [req EXCEPT ![c] = r]
           /\ at' = at \/ at' = [at EXCEPT ![c] = @ + 1]
  BY <1>0, <1>2, Zenon DEF SameLocks, PostInv, PostTypeOK
<1>3. CASE Begin(c)
  <2>1. \E l \in PCs : pc' = [pc EXCEPT ![c] = l]
    BY <1>3, Zenon DEF Begin, Goto, PCs
  <2> QED
    BY <1>2, <1>3, <2>1, Zenon DEF Begin, lockVars
<1>4. CASE PreLockIdem(c) \/ Idem(c)
  <2>1. KeysOf(req[c]) \subseteq Keys
    BY RequestTypes, Zenon DEF PostInv
  <2>2. Idem(c) => Input(c).key \in Keys
    BY InputType, Zenon DEF PostInv, Idem, LockIdem
  <2> QED
    BY <1>2, <1>4, <2>1, <2>2, Zenon DEF PreLockIdem, Idem, LockIdem, Goto, PCs
<1>5. CASE PreLockBal(c) \/ Balance(c)
  <2>1. AllPairs(req[c]) \subseteq Pairs
    BY RequestTypes, Zenon DEF PostInv
  <2>2. Balance(c) => PairsOf(Input(c)) \subseteq Pairs
    BY InputType, Zenon DEF PostInv, Balance, LockBalance
  <2> QED
    BY <1>2, <1>5, <2>1, <2>2, Zenon DEF PreLockBal, Balance, LockBalance, Goto, PCs
<1>6. CASE Lookup(c) \/ Recheck(c) \/ Barrier(c) \/ Gate(c) \/ Insert(c)
  BY <1>1, <1>2, <1>6, Zenon DEF Lookup, Recheck, LookupStep, Barrier, Gate, Insert,
     MatchInput, Return, Refuse, Goto, lockVars, PCs
<1>7. CASE Commit(c) \/ Rollback(c)
  BY <1>1, <1>7, Zenon DEF Commit, Rollback
<1> QED
  BY <1>3, <1>4, <1>5, <1>6, <1>7, Zenon DEF Step, Statement

\* A step of c that takes no lock: it begins a call, moves within one with the
\* locks it has, or ends it and has none.
LEMMA OwnOrder ==
    ASSUME PostInv, NEW c \in Clients, OrderAt(c),
           \/ Begin(c) \/ Lookup(c) \/ Recheck(c) \/ Barrier(c) \/ Gate(c)
           \/ Insert(c) \/ Commit(c) \/ Rollback(c)
    PROVE  OrderAt(c)'
<1>1. CASE EndTx(c)
  <2>1. pc'[c] = "idle"
    BY <1>1, Zenon DEF EndTx, Goto, PostInv, PostTypeOK
  <2>2. NoBal(c)' /\ NoIdem(c)'
    BY <1>1, ClientsAssumption, Zenon DEF EndTx, NoBal, NoIdem
  <2> QED
    BY <2>1, <2>2, Zenon DEF OrderAt
<1>2. CASE Begin(c)
  <2>1. PICK r \in Requests :
           /\ req' = [req EXCEPT ![c] = r[2]]
           /\ pc' = [pc EXCEPT ![c] = IF r[1] = "batch" THEN "preIdem" ELSE "lookup"]
    BY <1>2, Zenon DEF Begin, Goto
  <2>2. r[1] = "batch" \/ Len(r[2]) = 1
    BY RequestsAssumption, Zenon
  <2>3. req'[c] = r[2] /\ pc'[c] = IF r[1] = "batch" THEN "preIdem" ELSE "lookup"
    BY <2>1, Zenon DEF PostInv, PostTypeOK
  <2>4. NoBal(c)' /\ NoIdem(c)'
    BY ZenonT(30), <1>2, Zenon DEF Begin, OrderAt, NoBal, NoIdem, lockVars
  <2>5. KeysInOrder(c, KeysOf(req[c]))'
    BY <2>4, Zenon DEF NoIdem, KeysInOrder
  <2> QED
    BY <2>2, <2>3, <2>4, <2>5, Zenon DEF OrderAt
<1>3. CASE /\ UNCHANGED <<req, at, idemLock, balLock>>
           /\ \/ pc[c] = "lookup"  /\ pc'[c] = "idem"
              \/ pc[c] = "recheck" /\ pc'[c] = "barrier"
              \/ pc[c] = "barrier" /\ pc'[c] = "gate"
              \/ pc[c] = "gate"    /\ pc'[c] = "balance"
  <2>1. Input(c)' = Input(c)
    BY <1>3, Zenon DEF Input
  <2>2. /\ NoBal(c)' <=> NoBal(c)
        /\ AllKeysHeld(c)' <=> AllKeysHeld(c)
        /\ AllPairsHeld(c)' <=> AllPairsHeld(c)
    BY <1>3, Zenon DEF NoBal, AllKeysHeld, AllPairsHeld
  <2>3. NoIdem(c) => KeysInOrder(c, {Input(c).key})'
    BY <1>3, Zenon DEF NoIdem, KeysInOrder
  <2>4. NoBal(c) => PairsInOrder(c, PairsOf(Input(c)))'
    BY <1>3, Zenon DEF NoBal, PairsInOrder
  <2> QED
    BY <1>3, <2>1, <2>2, <2>3, <2>4, Zenon DEF OrderAt
<1>4. CASE /\ \E j : Return(c, j)
           /\ UNCHANGED <<req, idemLock, balLock>>
           /\ pc[c] \in {"lookup", "recheck", "insert"}
  <2>1. \/ at[c] < Len(req[c]) /\ pc'[c] = "lookup"
        \/ pc'[c] = "commit"
    BY <1>4, Zenon DEF Return, Goto, PostInv, PostTypeOK
  <2>2. /\ AllKeysHeld(c)' <=> AllKeysHeld(c)
        /\ AllPairsHeld(c)' <=> AllPairsHeld(c)
    BY <1>4, Zenon DEF AllKeysHeld, AllPairsHeld
  <2>3. at[c] >= 1 /\ at[c] \in Nat
    BY SMTT(30), Zenon DEF PostInv, PostTypeOK
  <2>4. at[c] < Len(req[c]) => AllKeysHeld(c) /\ AllPairsHeld(c)
    <3>0. ~ (at[c] < 1)
      BY SMTT(30), <2>3, Zenon
    <3>1. at[c] < Len(req[c]) => Len(req[c]) # 1
      BY <3>0, Zenon
    <3>2. pc[c] \in {"lookup", "recheck", "insert"} =>
             (AllKeysHeld(c) /\ AllPairsHeld(c)) \/ Len(req[c]) = 1
      BY Zenon DEF OrderAt
    <3> QED
      BY <1>4, <3>1, <3>2, Zenon
  <2> QED
    BY <2>1, <2>2, <2>4, Zenon DEF OrderAt
<1>5. CASE Lookup(c) \/ Recheck(c) \/ Barrier(c) \/ Gate(c)
  BY ZenonT(30), <1>1, <1>3, <1>4, <1>5, Zenon DEF Lookup, Recheck, LookupStep, Barrier, Gate,
     MatchInput, Refuse, Goto, lockVars, PostInv, PostTypeOK
<1>6. CASE Insert(c)
  BY ZenonT(30), <1>4, <1>6, Zenon DEF Insert, lockVars
<1>7. CASE Commit(c) \/ Rollback(c)
  BY ZenonT(30), <1>1, <1>7, Zenon DEF Commit, Rollback
<1> QED
  BY ZenonT(30), <1>2, <1>5, <1>6, <1>7, Zenon

\* Every step keeps the lock order.
LEMMA LockOrderStep == PostInv /\ LockOrder /\ [PostNext]_postVars => LockOrder'
<1> SUFFICES ASSUME PostInv, LockOrder, [PostNext]_postVars, NEW d \in Clients
             PROVE  OrderAt(d)'
  BY Zenon DEF LockOrder
<1>0. OrderAt(d)
  BY Zenon DEF LockOrder
<1>1. CASE UNCHANGED postVars
  <2>1. SameLocks(d) /\ UNCHANGED <<pc, req, at>>
    BY <1>1, Zenon DEF postVars, txVars, lockVars, SameLocks
  <2> QED
    BY <1>0, <2>1, LockOrderFrame, Zenon
<1>2. CASE \E c \in Clients : Begin(c) \/ Step(c) \/ Rollback(c)
  <2>1. PICK c \in Clients : Begin(c) \/ Step(c) \/ Rollback(c)
    BY <1>2, Zenon
  <2>2. CASE d # c
    BY ZenonT(30), <1>0, <2>1, <2>2, OthersKeep, LockOrderFrame, Zenon
  <2>3. CASE d = c
    <3>1. CASE PreLockIdem(d) \/ Idem(d)
      BY ZenonT(30), <1>0, <3>1, LockIdemOrder, Zenon
    <3>2. CASE PreLockBal(d) \/ Balance(d)
      BY ZenonT(30), <1>0, <3>2, LockBalanceOrder, Zenon
    <3>3. CASE \/ Begin(d) \/ Lookup(d) \/ Recheck(d) \/ Barrier(d) \/ Gate(d)
               \/ Insert(d) \/ Commit(d) \/ Rollback(d)
      BY ZenonT(30), <1>0, <3>3, OwnOrder, Zenon
    <3> QED
      BY ZenonT(30), <2>1, <2>3, <3>1, <3>2, <3>3, Zenon DEF Step, Statement
  <2> QED
    BY <2>2, <2>3, Zenon
<1> QED
  BY ZenonT(30), <1>1, <1>2, Zenon DEF PostNext

\* The locks in one order: the keys and, above them, the pairs.
HoldsAt(c, n) == \/ n \in Keys /\ idemLock[n] = c
                 \/ n - NKeys \in Pairs /\ balLock[n - NKeys] = c
WaitsAt(c, n) == \/ n \in Keys /\ WantsIdem(c, n)
                 \/ n - NKeys \in Pairs /\ WantsBal(c, n - NKeys)

\* A client waits only for a lock above all those it holds.
LEMMA WaitsAbove ==
    ASSUME PostInv, NEW c \in Clients, OrderAt(c),
           NEW n \in 1..(NKeys + NPairs), NEW m \in 1..(NKeys + NPairs),
           WaitsAt(c, n), HoldsAt(c, m)
    PROVE  m < n
<1>0. NKeys \in Nat /\ NPairs \in Nat
  BY BoundsAssumption, Zenon
<1>1. CASE n \in Keys /\ WantsIdem(c, n)
  <2>1. CASE pc[c] = "preIdem"
    BY SMTT(30), <1>0, <1>1, <2>1, Zenon DEF WantsIdem, NeedIdem, OrderAt, HoldsAt, NoBal, KeysInOrder, Keys
  <2>2. CASE pc[c] = "idem"
    <3>1. Input(c).key \in KeysOf(req[c])
      BY <2>2 DEF PostInv, PostTypeOK, InProgress, Input, KeysOf
    <3> QED
      BY <1>0, <1>1, <2>2, <3>1, ZenonT(30) DEF WantsIdem, NeedIdem, OrderAt, HoldsAt, NoBal,
         KeysInOrder, AllKeysHeld, Keys
  <2> QED
    BY <1>1, <2>1, <2>2, ZenonT(30) DEF WantsIdem, NeedIdem
<1>2. CASE n - NKeys \in Pairs /\ WantsBal(c, n - NKeys)
  <2>1. CASE m \in Keys
    BY <1>0, <1>2, <2>1 DEF Keys, Pairs
  <2>2. CASE m \notin Keys
    <3>1. m - NKeys \in Pairs /\ balLock[m - NKeys] = c
      BY <2>2, Zenon DEF HoldsAt
    <3>2. m - NKeys < n - NKeys
      <4>0. /\ m - NKeys \in Int /\ n - NKeys \in Int
            /\ n - NKeys \in NeedBal(c) /\ balLock[n - NKeys] # c
        BY <1>0, <1>2 DEF WantsBal
      <4>3. ASSUME PairsInOrder(c, NeedBal(c))
            PROVE  m - NKeys < n - NKeys
        BY SMTT(30), <3>1, <4>0, <4>3, Zenon DEF PairsInOrder
      <4>1. CASE pc[c] = "preBal"
        BY <4>1, <4>3, Zenon DEF NeedBal, OrderAt
      <4>2. CASE pc[c] = "balance"
        <5>1. PairsOf(Input(c)) \subseteq AllPairs(req[c])
          BY <4>2 DEF PostInv, PostTypeOK, InProgress, Input, AllPairs
        <5>2. NeedBal(c) = PairsOf(Input(c))
          BY <4>2, Zenon DEF NeedBal
        <5>3. ~ AllPairsHeld(c)
          BY <4>0, <5>1, <5>2, Zenon DEF AllPairsHeld
        <5> QED
          BY ZenonT(30), <4>2, <4>3, <5>2, <5>3, Zenon DEF OrderAt
      <4> QED
        BY <1>2, <4>1, <4>2, Zenon DEF WantsBal, NeedBal
    <3> QED
      BY <1>0, <3>2
  <2> QED
    BY <2>1, <2>2, Zenon
<1> QED
  BY <1>1, <1>2, Zenon DEF WaitsAt

\* So clients cannot wait in a circle: the one that waits for the highest lock
\* waits for somebody outside the circle.
LEMMA OrderNoCycle == PostInv /\ LockOrder => NoWaitCycle
<1> SUFFICES ASSUME PostInv, LockOrder,
                    NEW S \in SUBSET Clients, S # {},
                    \A c \in S : \E d \in S : WaitsFor(c, d)
             PROVE  FALSE
  BY Zenon DEF NoWaitCycle
<1> DEFINE N == NKeys + NPairs
           T == {t \in 0..N : \E c \in S, d \in S :
                        /\ N - t \in 1..N
                        /\ WaitsAt(c, N - t)
                        /\ HoldsAt(d, N - t)}
<1>0. NKeys \in Nat /\ NPairs \in Nat /\ N \in Nat
  BY SMTT(30), BoundsAssumption, Zenon
<1>1. \A c \in S : \E n \in 1..N : \E d \in S : WaitsAt(c, n) /\ HoldsAt(d, n)
  <2> SUFFICES ASSUME NEW c \in S
               PROVE  \E n \in 1..N : \E d \in S : WaitsAt(c, n) /\ HoldsAt(d, n)
    BY Zenon
  <2>1. PICK d \in S : WaitsFor(c, d)
    BY Zenon
  <2>2. CASE \E k \in Keys : WantsIdem(c, k) /\ idemLock[k] = d
    BY <1>0, <2>2 DEF WaitsAt, HoldsAt, Keys
  <2>3. CASE \E p \in Pairs : WantsBal(c, p) /\ balLock[p] = d
    <3>1. PICK p \in Pairs : WantsBal(c, p) /\ balLock[p] = d
      BY <2>3, Zenon
    <3>2. p + NKeys \in 1..N /\ (p + NKeys) - NKeys = p
      BY <1>0, <3>1 DEF Pairs
    <3> QED
      BY <3>1, <3>2, Zenon DEF WaitsAt, HoldsAt
  <2> QED
    BY <2>1, <2>2, <2>3, Zenon DEF WaitsFor
<1>2. T \subseteq Nat /\ T # {}
  <2>1. PICK c \in S, n \in 1..N, d \in S : WaitsAt(c, n) /\ HoldsAt(d, n)
    BY <1>1, Zenon
  <2>2. N - n \in 0..N /\ N - (N - n) = n
    BY <1>0
  <2>3. N - n \in T
    BY <2>1, <2>2, Zenon
  <2>4. 0..N \subseteq Nat
    BY <1>0
  <2> QED
    BY <2>3, <2>4, Zenon
<1>3. PICK t \in T : \A u \in T : ~ (u < t)
  <2> HIDE DEF T
  <2>1. PICK t \in T : \A u \in T : ~ (<<u, t>> \in OpToRel(<, Nat))
    BY <1>2, NatLessThanWellFounded, WFMin, Zenon
  <2>2. \A u \in T : u < t => <<u, t>> \in OpToRel(<, Nat)
    BY <1>2, Zenon DEF OpToRel
  <2> QED
    BY <2>1, <2>2, Zenon
<1>4. PICK d \in S : HoldsAt(d, N - t) /\ N - t \in 1..N /\ t \in Nat
  BY <1>2, Zenon
<1>5. PICK n \in 1..N, e \in S : WaitsAt(d, n) /\ HoldsAt(e, n)
  BY <1>1, Zenon
<1>6. N - t < n
  BY <1>4, <1>5, WaitsAbove, Zenon DEF LockOrder
<1>7. N - n \in 0..N /\ N - (N - n) = n /\ N - n < t
  BY <1>0, <1>4, <1>6
<1>8. N - n \in T
  BY <1>5, <1>7, Zenon
<1> QED
  BY <1>3, <1>7, <1>8, Zenon

\* Nobody holds a lock before the first call.
LEMMA PostInitOrder == PostInit => LockOrder
<1> SUFFICES ASSUME PostInit, NEW c \in Clients
             PROVE  OrderAt(c)
  BY Zenon DEF LockOrder
<1>1. pc[c] = "idle"
  BY Zenon DEF PostInit
<1>2. NoBal(c) /\ NoIdem(c)
  BY ClientsAssumption, Zenon DEF PostInit, NoBal, NoIdem
<1> QED
  BY <1>1, <1>2, Zenon DEF OrderAt

\* Posts and batches never deadlock on their advisory locks: any set of clients
\* has one that waits for none of the others, for any number of keys and pairs.
THEOREM NoDeadlock == PostSpec => []NoWaitCycle
<1>1. PostInit => PostInv /\ LockOrder
  BY PostInitInv, PostInitOrder, Zenon
<1>2. (PostInv /\ LockOrder) /\ [PostNext]_postVars => (PostInv /\ LockOrder)'
  BY PostNextInv, LockOrderStep, Zenon
<1> QED
  BY <1>1, <1>2, OrderNoCycle, PTL DEF PostSpec
=============================================================================
