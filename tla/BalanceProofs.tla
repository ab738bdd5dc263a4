----------------------------- MODULE BalanceProofs -----------------------------
(***************************************************************************)
(* What runs beside the posting of journals: period closes and rollups.    *)
(*                                                                         *)
(* No journal is committed behind the active close line, and retries are   *)
(* answered as if there were no closes, for any number of clients and      *)
(* operators.  A writer reads the line and inserts in different            *)
(* statements, so the argument is that the line cannot move between them:  *)
(* a writer past the barrier is among its readers until it ends, and a     *)
(* close that is about to commit has none.                                 *)
(*                                                                         *)
(* Checkpoints and balance reads are exact, for any number of clients,     *)
(* workers, operators, readers, dimensions and failures.  Workers, readers *)
(* and operators all carry a checkpoint from one statement to the next; it *)
(* stays exact meanwhile because no entry of its pair with an id at or     *)
(* below its watermark is still uncommitted.                               *)
(***************************************************************************)
EXTENDS PeriodClose, Rollup, LedgerStoreProofs

--------------------------------------------------------------------------------
(* Period closes.                                                          *)

CloserTypeOK ==
    /\ cpc \in [Closers -> {"idle", "poll", "insert", "commit"}]
    /\ row \in [Closers -> Rows]
    /\ clock \in Nat /\ closeSeq \in Nat /\ lastLine \in Dates

\* Who has passed the barrier, or has inserted, still holds the shared half.
BarrierHeld ==
    \A c \in Clients :
        pc[c] \in {"gate", "balance", "insert"} \/ txJ[c] # {} => c \in readers

\* One close at a time is past its poll, and then no writer is in flight.
BarrierExclusive ==
    /\ closing => readers = {}
    /\ \A k \in Closers : cpc[k] \in {"insert", "commit"} => closing
    /\ \A k, l \in Closers :
          cpc[k] \in {"insert", "commit"} /\ cpc[l] \in {"insert", "commit"} => k = l

\* What is past the gate, or inserted and not committed, is not behind the line.
InFlightAhead ==
    \A c \in Clients :
        /\ pc[c] \in {"balance", "insert"} => Input(c).eff >= ActiveLine
        /\ \A j \in txJ[c] : j.input.eff >= ActiveLine

PeriodInv == PostInv /\ CloserTypeOK /\ BarrierHeld /\ BarrierExclusive /\ InFlightAhead

-----------------------------------------------------------------------------

\* Before the first call nobody is in flight and there is no line.
LEMMA PeriodInitInv == PeriodInit => PeriodInv
<1> SUFFICES ASSUME PeriodInit PROVE PeriodInv
  BY Zenon
<1>1. PostInv
  BY Zenon, PostInitInv DEF PeriodInit
<1>2. CloserTypeOK
  BY BoundsAssumption DEF PeriodInit, CloserTypeOK, Rows, NoRow, Dates
<1>3. BarrierHeld /\ BarrierExclusive /\ InFlightAhead
  BY Zenon DEF PeriodInit, PostInit, BarrierHeld, BarrierExclusive, InFlightAhead
<1>. QED  BY Zenon, <1>1, <1>2, <1>3 DEF PeriodInv

\* What a step of client c leaves alone: the other clients and the close line.
Frame(c) ==
    /\ \A d \in Clients \ {c} :
          /\ pc'[d] = pc[d] /\ txJ'[d] = txJ[d] /\ Input(d)' = Input(d)
          /\ d \in readers' <=> d \in readers
    /\ UNCHANGED closeVars

\* Where client c is after its step, with respect to the barrier and the gate.
Moves(c) ==
    \/ pc'[c] = "idle" /\ txJ'[c] = {} /\ c \notin readers'
    \/ /\ pc'[c] \notin {"gate", "balance", "insert"}
       /\ txJ'[c] = txJ[c] /\ UNCHANGED readers
    \/ pc'[c] = "gate" /\ ~closing /\ txJ'[c] = txJ[c] /\ readers' = readers \cup {c}
    \/ /\ pc[c] = "gate" /\ pc'[c] = "balance" /\ Input(c).eff >= ActiveLine
       /\ txJ'[c] = txJ[c] /\ Input(c)' = Input(c) /\ UNCHANGED readers
    \/ /\ pc[c] = "balance" /\ pc'[c] \in {"balance", "insert"}
       /\ txJ'[c] = txJ[c] /\ Input(c)' = Input(c) /\ UNCHANGED readers
    \/ /\ pc[c] = "insert" /\ pc'[c] \in {"lookup", "commit"} /\ UNCHANGED readers
       /\ \A j \in txJ'[c] \ txJ[c] : j.input = Input(c)

\* A transaction that ends, by COMMIT, refusal or ROLLBACK, moves nobody else.
LEMMA EndFrame ==
  ASSUME PostTypeOK, NEW c \in Clients, EndTx(c), UNCHANGED closeVars
  PROVE  Frame(c) /\ Moves(c)
  BY Zenon DEF PostTypeOK, EndTx, Goto, Frame, Moves, Input

\* A look-up goes on, returns the journal it found, or refuses the call.
LEMMA LookupFrame ==
  ASSUME PostTypeOK, NEW c \in Clients, NEW here \in PCs, NEW next \in {"idem", "barrier"},
         LookupStep(c, here, next)
  PROVE  Frame(c) /\ Moves(c)
<1>1. CASE Existing(c) = {} /\ Goto(c, next) /\ UNCHANGED <<req, at, got, txJ, txE, lockVars, closeVars>>
  BY Zenon, <1>1 DEF PostTypeOK, Goto, Frame, Moves, Input, lockVars
<1>2. ASSUME NEW j \in Existing(c), Return(c, j), UNCHANGED <<req, txJ, txE, lockVars, closeVars>>
      PROVE  Frame(c) /\ Moves(c)
  <2>1. /\ pc' = [pc EXCEPT ![c] = "lookup"] \/ pc' = [pc EXCEPT ![c] = "commit"]
        /\ at' = [at EXCEPT ![c] = @ + 1] \/ at' = at
    BY Zenon, <1>2 DEF Return, Goto
  <2>. QED  BY Zenon, <1>2, <2>1 DEF PostTypeOK, Frame, Moves, Input, lockVars
<1>3. ASSUME NEW j \in Existing(c), Refuse(c, "conflict")
      PROVE  Frame(c) /\ Moves(c)
  BY Zenon, <1>3, EndFrame DEF Refuse
<1>. QED  BY <1>1, <1>2, <1>3, Zenon DEF LookupStep, MatchInput

\* Every step of client c is framed, and is one of the moves.
LEMMA ClientMoves ==
  ASSUME PostTypeOK, NEW c \in Clients, Begin(c) \/ Step(c) \/ Rollback(c)
  PROVE  Frame(c) /\ Moves(c)
<1>1. CASE Begin(c)
  <2>1. PICK r \in Requests : req' = [req EXCEPT ![c] = r[2]] /\ pc' \in {[pc EXCEPT ![c] = "preIdem"], [pc EXCEPT ![c] = "lookup"]}
    BY Zenon, <1>1 DEF Begin, Goto
  <2>2. UNCHANGED <<at, txJ, readers, closeVars>>
    BY Zenon, <1>1 DEF Begin, lockVars
  <2>. QED  BY Zenon, <2>1, <2>2 DEF PostTypeOK, Frame, Moves, Input
<1>2. CASE PreLockIdem(c) \/ Idem(c)
  <2>1. \E v \in {"preIdem", "preBal", "idem", "recheck"} : pc' = [pc EXCEPT ![c] = v]
    BY Zenon, <1>2 DEF PostTypeOK, PreLockIdem, Idem, LockIdem, Goto
  <2>2. UNCHANGED <<req, at, txJ, readers, closeVars>>
    BY Zenon, <1>2 DEF PreLockIdem, Idem, LockIdem
  <2>. QED  BY Zenon, <2>1, <2>2 DEF PostTypeOK, Frame, Moves, Input
<1>3. CASE PreLockBal(c)
  <2>1. \E v \in {"preBal", "lookup"} : pc' = [pc EXCEPT ![c] = v]
    BY Zenon, <1>3 DEF PostTypeOK, PreLockBal, LockBalance, Goto
  <2>2. UNCHANGED <<req, at, txJ, readers, closeVars>>
    BY Zenon, <1>3 DEF PreLockBal, LockBalance
  <2>. QED  BY Zenon, <2>1, <2>2 DEF PostTypeOK, Frame, Moves, Input
<1>4. CASE Lookup(c)
  BY Zenon, <1>4, LookupFrame DEF Lookup, PCs
<1>5. CASE Recheck(c)
  BY Zenon, <1>5, LookupFrame DEF Recheck, PCs
<1>6. CASE Barrier(c)
  BY Zenon, <1>6 DEF Barrier, Goto, PostTypeOK, Frame, Moves, Input
<1>7. CASE Gate(c)
  <2>1. CASE Refuse(c, "period_closed")
    BY Zenon, <2>1, EndFrame DEF Refuse
  <2>2. CASE Input(c).eff >= ActiveLine /\ Goto(c, "balance") /\ UNCHANGED <<req, at, txJ, lockVars, closeVars>>
    BY Zenon, <1>7, <2>2 DEF Gate, Goto, PostTypeOK, Frame, Moves, Input, lockVars
  <2>. QED  BY Zenon, <1>7, <2>1, <2>2 DEF Gate
<1>8. CASE Balance(c)
  <2>1. pc[c] = "balance" /\ \E v \in {"balance", "insert"} : pc' = [pc EXCEPT ![c] = v]
    BY Zenon, <1>8 DEF PostTypeOK, Balance, LockBalance, Goto
  <2>2. UNCHANGED <<req, at, txJ, readers, closeVars>>
    BY Zenon, <1>8 DEF Balance, LockBalance
  <2>. QED  BY Zenon, <2>1, <2>2 DEF PostTypeOK, Frame, Moves, Input
<1>9. CASE Insert(c)
  <2>1. PICK j : j.input = Input(c) /\ txJ' = [txJ EXCEPT ![c] = @ \cup {j}] /\ Return(c, j)
    BY Zenon, <1>9 DEF Insert
  <2>2. /\ pc' = [pc EXCEPT ![c] = "lookup"] \/ pc' = [pc EXCEPT ![c] = "commit"]
        /\ at' = [at EXCEPT ![c] = @ + 1] \/ at' = at
    BY Zenon, <2>1 DEF Return, Goto
  <2>3. pc[c] = "insert" /\ UNCHANGED <<req, readers, closeVars>>
    BY Zenon, <1>9 DEF Insert, lockVars
  <2>. QED  BY Zenon, <2>1, <2>2, <2>3 DEF PostTypeOK, Frame, Moves, Input
<1>10. CASE Commit(c)
  BY Zenon, <1>10, EndFrame DEF Commit
<1>11. CASE Rollback(c)
  BY Zenon, <1>11, EndFrame DEF Rollback
<1>. QED  BY Zenon, <1>1, <1>2, <1>3, <1>4, <1>5, <1>6, <1>7, <1>8, <1>9, <1>10, <1>11 DEF Step, Statement

\* A step of a client keeps the invariant: the line stands still, and the client passes
\* the gate only as a reader.
LEMMA ClientInv ==
  ASSUME PeriodInv, PostNext, UNCHANGED closerVars
  PROVE  PeriodInv'
<1> USE DEF PeriodInv
<1>1. PostInv'
  BY Zenon, PostNextInv
<1>2. PICK c \in Clients : Begin(c) \/ Step(c) \/ Rollback(c)
  BY Zenon DEF PostNext
<1>3. PostTypeOK /\ Frame(c) /\ Moves(c)
  BY Zenon, <1>2, ClientMoves DEF PostInv
<1>4. CloserTypeOK'
  BY Zenon DEF CloserTypeOK, closerVars
<1>5. closing' = closing /\ ActiveLine' = ActiveLine /\ cpc' = cpc
  BY <1>3 DEF Frame, closeVars, closerVars, ActiveLine
<1>6. BarrierHeld'
  BY Zenon, <1>3 DEF BarrierHeld, Frame, Moves
<1>7. BarrierExclusive'
  <2>1. closing => readers' \subseteq readers
    <3>1. readers \subseteq Clients /\ readers' \subseteq Clients
      BY Zenon, <1>1, <1>3 DEF PostInv, PostTypeOK
    <3>2. c \in readers' /\ c \notin readers => ~closing
      BY Zenon, <1>1, <1>3 DEF BarrierHeld, Moves, PostInv, PostTypeOK
    <3>. QED  BY Zenon, <1>3, <3>1, <3>2 DEF Frame
  <2>. QED  BY Zenon, <1>5, <2>1 DEF BarrierExclusive
<1>8. InFlightAhead'
  <2>1. ASSUME NEW d \in Clients, d # c
        PROVE  /\ pc'[d] \in {"balance", "insert"} => Input(d)'.eff >= ActiveLine
               /\ \A j \in txJ'[d] : j.input.eff >= ActiveLine
    BY Zenon, <1>3, <2>1 DEF InFlightAhead, Frame
  <2>2. /\ pc'[c] \in {"balance", "insert"} => Input(c)'.eff >= ActiveLine
        /\ \A j \in txJ'[c] : j.input.eff >= ActiveLine
    BY Zenon, <1>3 DEF InFlightAhead, Moves
  <2>. QED  BY Zenon, <1>5, <2>1, <2>2 DEF InFlightAhead
<1>. QED  BY Zenon, <1>1, <1>4, <1>6, <1>7, <1>8

\* The write path is not disturbed by a step of an operator.
LEMMA CloserKeepsPost ==
  ASSUME PostInv, UNCHANGED <<txVars, lockVars, dbVars, answers, calls>>,
         closing' \in BOOLEAN, closes' \in SUBSET Rows
  PROVE  PostInv'
<1>1. UNCHANGED <<pc, req, at, got, txJ, txE, idemLock, balLock, readers, journals, entries, seq,
                  answers, calls>>
  BY Zenon DEF txVars, lockVars, dbVars
<1>2. PostTypeOK'
  BY Zenon, <1>1 DEF PostInv, PostTypeOK, Rows
<1>3. \A c \in Clients : Visible(c)' = Visible(c) /\ Input(c)' = Input(c) /\ Existing(c)' = Existing(c)
  BY Zenon, <1>1 DEF Visible, Input, Existing
<1>4. InProgress' /\ LocksHeld'
  BY <1>1, <1>3 DEF PostInv, InProgress, LocksHeld
<1>5. RowsLocked' /\ IdsOrdered' /\ KeysUnique' /\ OneJournalPerKey' /\ AnswersDurable'
  BY <1>1, <1>3 DEF PostInv, RowsLocked, IdsOrdered, KeysUnique, OneJournalPerKey, AnswersDurable
<1>. QED  BY Zenon, <1>2, <1>4, <1>5 DEF PostInv

\* A step of an operator keeps the invariant: the line moves only when nobody is in flight.
LEMMA CloserInv ==
  ASSUME PeriodInv, NEW k \in Closers, BeginClose(k) \/ CloseStep(k) \/ AbandonClose(k)
  PROVE  PeriodInv'
<1> USE DEF PeriodInv
<1>0. PostTypeOK /\ closing \in BOOLEAN /\ closes \in SUBSET Rows
  BY Zenon DEF PostInv, PostTypeOK, Rows
<1>1. CASE BeginClose(k)
  <2>1. UNCHANGED postVars
    BY Zenon, <1>1 DEF BeginClose
  <2>2. UNCHANGED <<txVars, lockVars, dbVars, answers, calls, closing, closes, pc, txJ, req, at, readers>>
    BY Zenon, <2>1 DEF postVars, closeVars, txVars, lockVars
  <2>3. PostInv'
    BY Zenon, <1>0, <2>2, CloserKeepsPost
  <2>4. CloserTypeOK'
    BY <1>1 DEF BeginClose, CloserTypeOK, Rows
  <2>5. BarrierHeld' /\ BarrierExclusive'
    BY Zenon, <1>1, <2>2 DEF BeginClose, CloserTypeOK, BarrierHeld, BarrierExclusive
  <2>6. InFlightAhead'
    BY Zenon, <2>2 DEF InFlightAhead, Input, ActiveLine
  <2>. QED  BY Zenon, <2>3, <2>4, <2>5, <2>6
<1>2. CASE TryBarrier(k)
  <2>2. /\ UNCHANGED <<txVars, lockVars, dbVars, answers, calls, closes, pc, txJ, req, at, readers>>
        /\ closing' = TRUE /\ readers = {} /\ ~closing
    BY Zenon, <1>2 DEF TryBarrier, txVars, lockVars
  <2>3. PostInv'
    BY Zenon, <1>0, <2>2, CloserKeepsPost
  <2>4. CloserTypeOK'
    BY Zenon, <1>2 DEF TryBarrier, CloserTypeOK
  <2>5. BarrierHeld' /\ BarrierExclusive'
    BY Zenon, <1>2, <2>2 DEF TryBarrier, CloserTypeOK, BarrierHeld, BarrierExclusive
  <2>6. InFlightAhead'
    BY Zenon, <2>2 DEF InFlightAhead, Input, ActiveLine
  <2>. QED  BY Zenon, <2>3, <2>4, <2>5, <2>6
<1>3. CASE InsertPeriodClose(k)
  <2>1. UNCHANGED postVars
    BY Zenon, <1>3 DEF InsertPeriodClose
  <2>2. UNCHANGED <<txVars, lockVars, dbVars, answers, calls, closing, closes, pc, txJ, req, at, readers>>
    BY Zenon, <2>1 DEF postVars, closeVars, txVars, lockVars
  <2>3. PostInv'
    BY Zenon, <1>0, <2>2, CloserKeepsPost
  <2>4. CloserTypeOK'
    BY <1>3 DEF InsertPeriodClose, CloserTypeOK, Rows
  <2>5. BarrierHeld' /\ BarrierExclusive'
    BY Zenon, <1>3, <2>2 DEF InsertPeriodClose, CloserTypeOK, BarrierHeld, BarrierExclusive
  <2>6. InFlightAhead'
    BY Zenon, <2>2 DEF InFlightAhead, Input, ActiveLine
  <2>. QED  BY Zenon, <2>3, <2>4, <2>5, <2>6
<1>4. CASE CommitClose(k)
  <2>2. /\ UNCHANGED <<txVars, lockVars, dbVars, answers, calls, pc, txJ, req, at, readers>>
        /\ closing' = FALSE /\ closes' = closes \cup {row[k]}
    BY Zenon, <1>4 DEF CommitClose, txVars, lockVars
  <2>3. PostInv'
    BY Zenon, <1>0, <2>2, CloserKeepsPost DEF CloserTypeOK
  <2>4. CloserTypeOK'
    BY <1>4, BoundsAssumption DEF CommitClose, CloserTypeOK, Rows, NoRow, Dates
  <2>5. readers = {}
    BY Zenon, <1>4 DEF CommitClose, BarrierExclusive
  <2>6. BarrierHeld' /\ BarrierExclusive'
    BY Zenon, <1>4, <2>2, <2>5 DEF CommitClose, CloserTypeOK, BarrierHeld, BarrierExclusive
  <2>7. \A c \in Clients : pc'[c] \notin {"balance", "insert"} /\ txJ'[c] = {}
    BY Zenon, <2>2, <2>5 DEF BarrierHeld
  <2>8. InFlightAhead'
    BY Zenon, <2>7 DEF InFlightAhead
  <2>. QED  BY Zenon, <2>3, <2>4, <2>6, <2>8
<1>5. CASE AbandonClose(k)
  <2>2. /\ UNCHANGED <<txVars, lockVars, dbVars, answers, calls, closes, pc, txJ, req, at, readers>>
        /\ closing' = (closing /\ cpc[k] = "poll")
    BY Zenon, <1>5 DEF AbandonClose, txVars, lockVars
  <2>3. PostInv'
    BY Zenon, <1>0, <2>2, CloserKeepsPost
  <2>4. CloserTypeOK'
    BY <1>5, BoundsAssumption DEF AbandonClose, CloserTypeOK, Rows, NoRow, Dates
  <2>5. BarrierHeld' /\ BarrierExclusive'
    BY Zenon, <1>5, <2>2 DEF AbandonClose, CloserTypeOK, BarrierHeld, BarrierExclusive
  <2>6. InFlightAhead'
    BY Zenon, <2>2 DEF InFlightAhead, Input, ActiveLine
  <2>. QED  BY Zenon, <2>3, <2>4, <2>5, <2>6
<1>. QED  BY Zenon, <1>1, <1>2, <1>3, <1>4, <1>5 DEF CloseStep

\* Steps of clients, of operators and of neither.
LEMMA PeriodNextInv == PeriodInv /\ [PeriodNext]_periodVars => PeriodInv'
<1> SUFFICES ASSUME PeriodInv, [PeriodNext]_periodVars PROVE PeriodInv'
  BY Zenon
<1>1. CASE UNCHANGED periodVars
  <2>1. UNCHANGED <<postVars, closerVars>>
    BY Zenon, <1>1 DEF periodVars
  <2>2. PostInv'
    BY Zenon, <2>1, PostNextInv DEF PeriodInv
  <2>3. UNCHANGED <<pc, txJ, req, at, readers, closing, closes, cpc, row, clock, closeSeq, lastLine>>
    BY Zenon, <2>1 DEF postVars, txVars, lockVars, closeVars, closerVars
  <2>. QED  BY Zenon, <2>2, <2>3 DEF PeriodInv, CloserTypeOK, BarrierHeld, BarrierExclusive,
               InFlightAhead, Input, ActiveLine
<1>. QED  BY Zenon, <1>1, ClientInv, CloserInv DEF PeriodNext

-----------------------------------------------------------------------------
(* The theorems.                                                           *)

\* Every behaviour of clients and operators stays within the invariant.
THEOREM PeriodInvariant == PeriodSpec => []PeriodInv
BY PeriodInitInv, PeriodNextInv, PTL DEF PeriodSpec

\* No journal is ever committed behind the active close line, however posts and closes
\* interleave: ClosePeriod commits only while it alone holds the barrier, and
\* postJournalWithQueries keeps the shared half from before the gate to COMMIT.
THEOREM LineHolds == PeriodSpec => NoWriteBehindLine
<1>1. PeriodInv /\ [PeriodNext]_periodVars =>
         [\A j \in journals' \ journals : j.input.eff >= ActiveLine]_periodVars
  <2> SUFFICES ASSUME PeriodInv, PeriodNext, NEW j \in journals' \ journals
               PROVE  j.input.eff >= ActiveLine
    BY Zenon
  <2>1. CASE PostNext
    <3>1. PICK c \in Clients : journals' = journals \cup txJ[c]
      BY <2>1, Zenon DEF PostNext, postVars, dbVars, Step, Statement, Begin, PreLockIdem, PreLockBal,
         Lookup, Idem, Recheck, Barrier, Gate, Balance, Insert, Rollback, LockIdem,
         LockBalance, LookupStep, MatchInput, Refuse, Commit
    <3>. QED  BY Zenon, <3>1 DEF PeriodInv, InFlightAhead
  <2>2. ASSUME NEW k \in Closers, BeginClose(k) \/ CloseStep(k) \/ AbandonClose(k)
        PROVE  journals' = journals
    BY Zenon, <2>2 DEF BeginClose, CloseStep, TryBarrier, InsertPeriodClose, CommitClose, AbandonClose,
       postVars, dbVars
  <2>. QED  BY Zenon, <2>1, <2>2 DEF PeriodNext
<1>. QED  BY <1>1, PeriodInvariant, PTL DEF PeriodSpec, NoWriteBehindLine

\* A retry is answered with its journal although periods have been closed since: the
\* look-ups of postJournalWithQueries come before the gate.
THEOREM RetriesAcrossCloses == PeriodSpec => RetryAnswered
<1>1. PeriodInv /\ [PeriodNext]_periodVars =>
         [\A a \in answers' \ answers, j \in journals :
             a.input.key = j.input.key =>
                IF a.input = j.input THEN a.res = "ok" /\ a.uid = j.uid
                                     ELSE a.res = "conflict"]_postVars
  <2> SUFFICES ASSUME PeriodInv, PeriodNext \/ UNCHANGED periodVars,
                      NEW a \in answers' \ answers, NEW j \in journals,
                      a.input.key = j.input.key
               PROVE  IF a.input = j.input THEN a.res = "ok" /\ a.uid = j.uid
                                           ELSE a.res = "conflict"
    BY Zenon
  <2>1. CASE PostNext
    BY Zenon, <2>1, RetryStep DEF PeriodInv
  <2>2. ASSUME NEW k \in Closers, BeginClose(k) \/ CloseStep(k) \/ AbandonClose(k)
        PROVE  answers' = answers
    BY Zenon, <2>2 DEF BeginClose, CloseStep, TryBarrier, InsertPeriodClose, CommitClose, AbandonClose, postVars
  <2>3. CASE UNCHANGED periodVars
    BY Zenon, <2>3 DEF periodVars, postVars
  <2>. QED  BY Zenon, <2>1, <2>2, <2>3 DEF PeriodNext
<1>. QED  BY <1>1, PeriodInvariant, PTL DEF PeriodSpec, RetryAnswered

--------------------------------------------------------------------------------
(* Rollups.                                                                *)

\* Checkpoint c of dimension d is exact, and will be: what is uncommitted on its pair
\* is past its watermark, and so is everything that gets its id later.
Good(d, c) ==
    /\ c.last \in Nat /\ c.last <= seq
    /\ Exact(d, c)
    /\ \A x \in Clients : \A e \in txE[x] : e.pair = d[1] => c.last < e.id

\* A worker holds a good checkpoint from GetCheckpoint to Upsert.
WorkersGood ==
    /\ batch \in [Workers -> SUBSET Dims]
    /\ \A w \in Workers : wpc[w] \in {"sum", "upsert"} => item[w] \in Dims /\ Good(item[w], val[w])

\* RebuildCheckpoint holds the balance lock of its dimension.
RebuildLocked ==
    \A o \in Operators : opc[o] # "idle" => target[o] \in Dims /\ balLock[target[o][1]] = o

\* A reader's first statement saw a good checkpoint.
ReadersGood ==
    \A r \in Readers : reading[r].dim # <<>> => reading[r].dim \in Dims /\ Good(reading[r].dim, reading[r].base)

\* The functions that are updated argument by argument.
RollupShape ==
    /\ cp = [d \in Dims |-> cp[d]] /\ wpc = [w \in Workers |-> wpc[w]]
    /\ item = [w \in Workers |-> item[w]] /\ val = [w \in Workers |-> val[w]]
    /\ opc = [o \in Operators |-> opc[o]] /\ target = [o \in Operators |-> target[o]]
    /\ reading = [r \in Readers |-> reading[r]]

RollupInv ==
    /\ PostInv /\ RollupShape
    /\ \A d \in Dims : Good(d, cp[d])
    /\ WorkersGood /\ RebuildLocked /\ ReadersGood

-----------------------------------------------------------------------------
(* Balances and watermarks.                                                *)

\* A bounded set of numbers has a largest one.
LEMMA LargestExists ==
  ASSUME NEW T \in SUBSET Nat, T # {}, NEW b \in Nat, \A t \in T : t <= b
  PROVE  \E m \in T : \A t \in T : t <= m
<1> DEFINE U == {u \in 0..b : b - u \in T}
<1>1. U \subseteq Nat /\ U # {}
  <2>1. PICK t \in T : TRUE
    BY Zenon
  <2>2. b - t \in 0..b /\ b - (b - t) = t
    BY <2>1
  <2>. QED  BY <2>1, <2>2
<1>2. PICK u \in U : \A v \in U : ~ (v < u)
  <2> HIDE DEF U
  <2>1. PICK u \in U : \A v \in U : ~ (<<v, u>> \in OpToRel(<, Nat))
    BY <1>1, NatLessThanWellFounded, WFMin, Zenon
  <2>2. \A v \in U : v < u => <<v, u>> \in OpToRel(<, Nat)
    BY Zenon, <1>1 DEF OpToRel
  <2>. QED  BY <2>1, <2>2, Zenon
<1>3. ASSUME NEW t \in T PROVE t <= b - u
  <2>1. t \in Nat /\ b - t \in 0..b /\ b - (b - t) = t
    OBVIOUS
  <2>2. b - t \in U
    BY Zenon, <2>1
  <2>3. ~ (b - t < u) /\ u \in 0..b
    BY Zenon, <1>2, <2>2
  <2>. QED  BY <2>1, <2>3
<1>4. b - u \in T
  BY Zenon, <1>2
<1>. QED  BY Zenon, <1>3, <1>4

\* MAX(id) is the id of one of the entries and at least that of each.
LEMMA MaxIdIsLargest ==
  ASSUME NEW E \in SUBSET Entries, E # {}, NEW b \in Nat, \A e \in E : e.id <= b
  PROVE  /\ MaxId(E) \in Ids(E) /\ MaxId(E) \in Nat /\ MaxId(E) <= b
         /\ \A e \in E : e.id <= MaxId(E)
<1>1. Ids(E) \in SUBSET Nat /\ Ids(E) # {} /\ \A i \in Ids(E) : i <= b
  BY Zenon DEF Ids, Entries
<1>2. \E m \in Ids(E) : \A i \in Ids(E) : i <= m
  BY Zenon, <1>1, LargestExists
<1>3. MaxId(E) \in Ids(E) /\ \A i \in Ids(E) : i <= MaxId(E)
  BY Zenon, <1>2 DEF MaxId
<1>. QED  BY Zenon, <1>1, <1>3 DEF Ids

\* An exact checkpoint and the entries past it make up the balance: nothing is left out
\* and nothing counted twice.
LEMMA DeltaCompletes ==
  ASSUME entries \subseteq Entries, NEW d, NEW c, c.last \in Nat, Exact(d, c)
  PROVE  Plus(c.bal, Ids(OnDim(d, c.last))) = Plus(Zero, Ids(OnDim(d, 0)))
<1> DEFINE low == {e.id : e \in {f \in OnDim(d, 0) : f.id <= c.last}}
           high == Ids(OnDim(d, c.last))
<1>1. \A e \in entries : e.id \in Nat
  BY Zenon DEF Entries
<1>2. c.bal = [once |-> low, twice |-> {}]
  BY Zenon DEF Exact, Plus, Zero
<1>3. low \cap high = {}
  BY <1>1 DEF Ids, OnDim, OnPair
<1>4. low \cup high = Ids(OnDim(d, 0))
  BY <1>1 DEF Ids, OnDim, OnPair
<1> HIDE DEF low, high
<1>5. Plus(c.bal, high) = [once |-> low \cup high, twice |-> {}]
  BY <1>2, <1>3 DEF Plus
<1>6. Plus(Zero, Ids(OnDim(d, 0))) = [once |-> Ids(OnDim(d, 0)), twice |-> {}]
  BY Zenon DEF Plus, Zero
<1>. QED  BY Zenon, <1>4, <1>5, <1>6 DEF high

-----------------------------------------------------------------------------
(* What the write path does to a checkpoint somebody holds.                *)

\* Rows appear only by the COMMIT of who inserted them, and ids are drawn upwards.
Grown ==
    /\ seq' \in Nat /\ seq <= seq'
    /\ entries \subseteq entries'
    /\ \A e \in entries' \ entries : \E x \in Clients : e \in txE[x]
    /\ \A x \in Clients : \A e \in txE'[x] : e \in txE[x] \/ seq < e.id

\* Good, said of the next state.
GoodAfter(d, c) ==
    /\ c.last \in Nat /\ c.last <= seq'
    /\ c.bal = Plus(Zero, {e.id : e \in {f \in OnDim(d, 0)' : f.id <= c.last}})
    /\ \A x \in Clients : \A e \in txE'[x] : e.pair = d[1] => c.last < e.id

\* A good checkpoint stays good while the ledger grows.
LEMMA GoodKept ==
  ASSUME PostTypeOK, PostTypeOK', Grown, NEW d, NEW c, Good(d, c)
  PROVE  GoodAfter(d, c)
<1>1. /\ \A e \in entries' : e.id \in Nat
      /\ \A x \in Clients : \A e \in txE'[x] : e.id \in Nat
      /\ seq \in Nat /\ seq' \in Nat
  BY DEF PostTypeOK, Entries
<1>2. {f \in OnDim(d, 0)' : f.id <= c.last} = {f \in OnDim(d, 0) : f.id <= c.last}
  <2>1. ASSUME NEW e \in entries', e.pair = d[1], e.id <= c.last PROVE e \in entries
    BY <1>1, <2>1 DEF Grown, Good
  <2>. QED  BY Zenon, <2>1 DEF OnDim, OnPair, Grown
<1>3. c.bal = Plus(Zero, {e.id : e \in {f \in OnDim(d, 0)' : f.id <= c.last}})
  BY Zenon, <1>2 DEF Good, Exact
<1>4. c.last \in Nat /\ c.last <= seq'
  BY <1>1 DEF Good, Grown
<1>5. \A x \in Clients : \A e \in txE'[x] : e.pair = d[1] => c.last < e.id
  BY <1>1 DEF Good, Grown
<1>. QED  BY Zenon, <1>3, <1>4, <1>5 DEF GoodAfter

\* Nothing of the ledger changes: not even the goodness of a checkpoint.
LEMMA StillGrown ==
  ASSUME PostTypeOK, UNCHANGED <<entries, seq, txE>>
  PROVE  Grown
  BY DEF Grown, PostTypeOK

\* A step of a client grows the ledger, and takes no lock from anybody else.
LEMMA PostGrows ==
  ASSUME PostInv, PostNext
  PROVE  /\ Grown
         /\ \A p \in Pairs : balLock[p] \in Others => balLock'[p] = balLock[p]
<1>0. PostTypeOK
  BY Zenon DEF PostInv
<1>1. PICK c \in Clients : Begin(c) \/ Step(c) \/ Rollback(c)
  BY Zenon DEF PostNext
<1>2. c \notin Others /\ NoClient \notin Others
  BY Zenon, ClientsAssumption
<1>3. ASSUME EndTx(c)
      PROVE  /\ \A x \in Clients : \A e \in txE'[x] : e \in txE[x]
             /\ \A p \in Pairs : balLock[p] \in Others => balLock'[p] = balLock[p]
  BY Zenon, <1>0, <1>2, <1>3 DEF EndTx, PostTypeOK
<1>4. ASSUME Refuse(c, "conflict") \/ Refuse(c, "period_closed") \/ Rollback(c)
      PROVE  /\ Grown
             /\ \A p \in Pairs : balLock[p] \in Others => balLock'[p] = balLock[p]
  BY <1>0, <1>3, <1>4 DEF Refuse, Rollback, dbVars, Grown, PostTypeOK
<1>5. ASSUME UNCHANGED <<txE, dbVars>>, UNCHANGED balLock
      PROVE  /\ Grown
             /\ \A p \in Pairs : balLock[p] \in Others => balLock'[p] = balLock[p]
  BY Zenon, <1>0, <1>5, StillGrown DEF dbVars
<1>6. CASE Commit(c)
  BY <1>0, <1>3, <1>6 DEF Commit, Grown, PostTypeOK
<1>7. CASE PreLockBal(c) \/ Balance(c)
  <2>1. UNCHANGED <<txE, entries, seq>>
    BY Zenon, <1>7 DEF PreLockBal, Balance, LockBalance, dbVars
  <2>2. \A p \in Pairs : balLock[p] \in Others => balLock'[p] = balLock[p]
    BY <1>0, <1>2, <1>7 DEF PreLockBal, Balance, LockBalance, PostTypeOK
  <2>. QED  BY Zenon, <1>0, <2>1, <2>2, StillGrown
<1>8. CASE Insert(c)
  <2>1. /\ seq + Len(Input(c).legs) + 1 \in Nat
        /\ Len(Input(c).legs) \in Nat
        /\ \A e \in NewEntries(c) : e.id > seq
    BY Zenon, <1>8, NewRowsType, InputType DEF Insert, PostInv
  <2>2. /\ txE' = [txE EXCEPT ![c] = @ \cup NewEntries(c)]
        /\ seq' = seq + Len(Input(c).legs) + 1
        /\ UNCHANGED <<entries, balLock>>
    BY Zenon, <1>8 DEF Insert, lockVars
  <2>3. seq \in Nat /\ txE \in [Clients -> SUBSET Entries]
    BY Zenon, <1>0 DEF PostTypeOK
  <2>. QED  BY <2>1, <2>2, <2>3 DEF Grown
<1>9. CASE Begin(c) \/ PreLockIdem(c) \/ Idem(c) \/ Barrier(c)
  BY Zenon, <1>5, <1>9 DEF Begin, PreLockIdem, Idem, LockIdem, Barrier, lockVars
<1>10. CASE Gate(c)
  BY Zenon, <1>4, <1>5, <1>10 DEF Gate, lockVars
<1>11. CASE Lookup(c) \/ Recheck(c)
  BY Zenon, <1>4, <1>5, <1>11 DEF Lookup, Recheck, LookupStep, MatchInput, lockVars
<1>12. CASE Rollback(c)
  BY Zenon, <1>4, <1>12
<1>. QED  BY Zenon, <1>1, <1>6, <1>7, <1>8, <1>9, <1>10, <1>11, <1>12 DEF Step, Statement

\* Every checkpoint somebody holds survives a step of the ledger.
LEMMA Carried ==
  ASSUME RollupInv, PostTypeOK', Grown
  PROVE  /\ \A d \in Dims : GoodAfter(d, cp[d])
         /\ \A w \in Workers : wpc[w] \in {"sum", "upsert"} => GoodAfter(item[w], val[w])
         /\ \A r \in Readers : reading[r].dim # <<>> => GoodAfter(reading[r].dim, reading[r].base)
<1>1. PostTypeOK
  BY Zenon DEF RollupInv, PostInv
<1>2. \A d, c : Good(d, c) => GoodAfter(d, c)
  BY Zenon, <1>1, GoodKept
<1>. QED  BY Zenon, <1>2 DEF RollupInv, WorkersGood, ReadersGood

\* An operator's step may move balance locks of its own; the write path does not notice.
LEMMA OperatorKeepsPost ==
  ASSUME PostInv,
         UNCHANGED <<txVars, idemLock, readers, dbVars, closeVars, answers, calls>>,
         balLock' \in [Pairs -> Clients \cup Others \cup {NoClient}],
         \A p \in Pairs : balLock[p] \in Clients => balLock'[p] = balLock[p]
  PROVE  PostInv'
<1>1. UNCHANGED <<pc, req, at, got, txJ, txE, idemLock, readers, journals, entries, seq,
                  closing, closes, answers, calls>>
  BY Zenon DEF txVars, dbVars, closeVars
<1>2. PostTypeOK'
  BY Zenon, <1>1 DEF PostInv, PostTypeOK
<1>3. \A c \in Clients : Visible(c)' = Visible(c) /\ Input(c)' = Input(c) /\ Existing(c)' = Existing(c)
  BY Zenon, <1>1 DEF Visible, Input, Existing
<1>4. InProgress' /\ IdsOrdered' /\ KeysUnique' /\ OneJournalPerKey' /\ AnswersDurable'
  BY <1>1, <1>3 DEF PostInv, InProgress, IdsOrdered, KeysUnique, OneJournalPerKey, AnswersDurable
<1>5. LocksHeld'
  <2>1. \A c \in Clients : pc[c] # "idle" => PairsOf(Input(c)) \subseteq Pairs
    BY Zenon, InputType DEF PostInv
  <2>. QED  BY Zenon, <1>1, <1>3, <2>1 DEF PostInv, LocksHeld
<1>6. RowsLocked'
  <2>1. \A c \in Clients : \A e \in txE[c] : e.pair \in Pairs
    BY DEF PostInv, PostTypeOK, Entries
  <2>. QED  BY <1>1, <2>1 DEF PostInv, RowsLocked
<1>. QED  BY Zenon, <1>2, <1>4, <1>5, <1>6 DEF PostInv

\* Before the first call every checkpoint is empty, and so is the ledger.
LEMMA RollupInitInv == RollupInit => RollupInv
<1> SUFFICES ASSUME RollupInit PROVE RollupInv
  BY Zenon
<1>1. PostInv
  BY Zenon, PostInitInv DEF RollupInit
<1>2. RollupShape
  BY Zenon DEF RollupInit, RollupShape
<1>3. \A d \in Dims : Good(d, cp[d])
  <2>1. \A d \in Dims : OnDim(d, 0) = {}
    BY Zenon DEF RollupInit, PostInit, OnDim, OnPair
  <2>2. \A d \in Dims : Exact(d, Checkpoint(Zero, 0))
    BY Zenon, <2>1 DEF Exact, Checkpoint, Plus, Zero
  <2>. QED  BY <2>2 DEF RollupInit, PostInit, Good, Checkpoint
<1>4. WorkersGood /\ RebuildLocked /\ ReadersGood
  BY Zenon DEF RollupInit, WorkersGood, RebuildLocked, ReadersGood
<1>. QED  BY Zenon, <1>1, <1>2, <1>3, <1>4 DEF RollupInv

\* A step of the write path, alone or with the enqueue of its COMMIT.
LEMMA PostStepInv ==
  ASSUME RollupInv, PostStep
  PROVE  RollupInv'
<1> USE DEF RollupInv
<1>1. PostNext /\ UNCHANGED <<cp, workerVars, opVars, reading>>
  BY Zenon DEF PostStep, PostNext, Step, rollVars
<1>2. PostInv'
  BY Zenon, <1>1, PostNextInv
<1>3. Grown /\ \A p \in Pairs : balLock[p] \in Others => balLock'[p] = balLock[p]
  BY Zenon, <1>1, PostGrows
<1>4. UNCHANGED <<cp, wpc, batch, item, val, opc, target, reading>>
  BY Zenon, <1>1 DEF workerVars, opVars
<1>5. RollupShape'
  BY Zenon, <1>4 DEF RollupShape
<1>6. /\ \A d \in Dims : GoodAfter(d, cp[d])
      /\ \A w \in Workers : wpc[w] \in {"sum", "upsert"} => GoodAfter(item[w], val[w])
      /\ \A r \in Readers : reading[r].dim # <<>> => GoodAfter(reading[r].dim, reading[r].base)
  BY Zenon, <1>2, <1>3, Carried DEF PostInv
<1>7. ASSUME NEW d \in Dims PROVE Good(d, cp[d])'
  BY Zenon, <1>4, <1>6 DEF Good, GoodAfter, Exact
<1>8. ASSUME NEW w \in Workers, wpc'[w] \in {"sum", "upsert"}
      PROVE  item'[w] \in Dims /\ Good(item[w], val[w])'
  <2>1. GoodAfter(item[w], val[w]) /\ item'[w] \in Dims /\ item' = item /\ val' = val
    BY Zenon, <1>4, <1>6, <1>8 DEF WorkersGood
  <2>. QED  BY Zenon, <2>1 DEF Good, GoodAfter, Exact
<1>9. ASSUME NEW r \in Readers, reading'[r].dim # <<>>
      PROVE  reading'[r].dim \in Dims /\ Good(reading[r].dim, reading[r].base)'
  <2>1. GoodAfter(reading[r].dim, reading[r].base) /\ reading'[r].dim \in Dims /\ reading' = reading
    BY Zenon, <1>4, <1>6, <1>9 DEF ReadersGood
  <2>. QED  BY Zenon, <2>1 DEF Good, GoodAfter, Exact
<1>10. WorkersGood'
  BY Zenon, <1>4, <1>8 DEF WorkersGood
<1>11. ReadersGood'
  BY Zenon, <1>9 DEF ReadersGood
<1>12. RebuildLocked'
  BY Zenon, <1>3, <1>4 DEF RebuildLocked, Operators, Dims
<1>. QED  BY Zenon, <1>2, <1>5, <1>7, <1>10, <1>11, <1>12

-----------------------------------------------------------------------------
(* Workers, operators and readers: the ledger stands still.                *)

\* It is enough that what they hold afterwards is good in the ledger of before.
LEMMA LedgerStill ==
  ASSUME PostInv', RollupShape', UNCHANGED <<entries, seq, txE>>,
         \A d \in Dims : Good(d, cp'[d]),
         batch' \in [Workers -> SUBSET Dims],
         \A w \in Workers : wpc'[w] \in {"sum", "upsert"} => item'[w] \in Dims /\ Good(item'[w], val'[w]),
         RebuildLocked',
         \A r \in Readers : reading'[r].dim # <<>> =>
             reading'[r].dim \in Dims /\ Good(reading'[r].dim, reading'[r].base)
  PROVE  RollupInv'
<1>1. ASSUME NEW d \in Dims PROVE Good(d, cp[d])'
  BY Zenon DEF Good, Exact, OnDim, OnPair
<1>2. ASSUME NEW w \in Workers, wpc'[w] \in {"sum", "upsert"}
      PROVE  Good(item[w], val[w])'
  <2>1. Good(item'[w], val'[w])
    BY Zenon, <1>2
  <2>. QED  BY Zenon, <2>1 DEF Good, Exact, OnDim, OnPair
<1>3. ASSUME NEW r \in Readers, reading'[r].dim # <<>>
      PROVE  Good(reading[r].dim, reading[r].base)'
  <2>1. Good(reading'[r].dim, reading'[r].base)
    BY Zenon, <1>3
  <2>. QED  BY Zenon, <2>1 DEF Good, Exact, OnDim, OnPair
<1>4. WorkersGood'
  BY Zenon, <1>2 DEF WorkersGood
<1>5. ReadersGood'
  BY Zenon, <1>3 DEF ReadersGood
<1>. QED  BY Zenon, <1>1, <1>4, <1>5 DEF RollupInv

\* SumEntriesSince turns a good checkpoint into a good one: its watermark is over the
\* whole pair, its sum over one classification, in one snapshot.
LEMMA AdvanceGood ==
  ASSUME PostInv, NEW d \in Dims, NEW c, Good(d, c), OnPair(d[1], c.last) # {}
  PROVE  Good(d, Advance(d, c))
<1> DEFINE E == OnPair(d[1], c.last)  m == MaxId(E)
<1>1. /\ entries \subseteq Entries /\ seq \in Nat /\ c.last \in Nat
      /\ \A e \in entries : e.id <= seq /\ e.id \in Nat
      /\ \A x \in Clients : \A e \in txE[x] : e.id \in Nat /\ \A f \in entries : e.pair = f.pair => f.id < e.id
  BY DEF PostInv, PostTypeOK, IdsOrdered, Good, Entries
<1>2. E \in SUBSET Entries /\ E # {} /\ \A e \in E : e.id <= seq
  BY Zenon, <1>1 DEF OnPair
<1> HIDE DEF E
<1>3. /\ m \in Ids(E) /\ m \in Nat /\ m <= seq
      /\ \A e \in E : e.id <= m
  BY Zenon, <1>1, <1>2, MaxIdIsLargest
<1> HIDE DEF m
<1>4. PICK f \in entries : f.pair = d[1] /\ f.id = m /\ f.id > c.last
  BY Zenon, <1>3 DEF Ids, E, OnPair
<1>5. {g \in OnDim(d, 0) : g.id <= m} = OnDim(d, 0)
  <2>1. ASSUME NEW g \in OnDim(d, 0) PROVE g.id <= m
    <3>1. g \in entries /\ g.pair = d[1]
      BY Zenon DEF OnDim, OnPair
    <3>2. CASE g.id > c.last
      BY Zenon, <1>3, <3>1, <3>2 DEF E, OnPair
    <3>3. CASE ~(g.id > c.last)
      BY <1>1, <1>3, <1>4, <3>1, <3>3
    <3>. QED  BY Zenon, <3>2, <3>3
  <2>. QED  BY Zenon, <2>1
<1>6. Plus(c.bal, Ids(OnDim(d, c.last))) = Plus(Zero, Ids(OnDim(d, 0)))
  BY Zenon, <1>1, DeltaCompletes DEF Good
<1>7. Advance(d, c) = [bal |-> Plus(Zero, Ids(OnDim(d, 0))), last |-> m]
  BY Zenon, <1>6 DEF Advance, Checkpoint, m, E
<1>8. Exact(d, [bal |-> Plus(Zero, Ids(OnDim(d, 0))), last |-> m])
  BY Zenon, <1>5 DEF Exact, Ids
<1>9. \A x \in Clients : \A e \in txE[x] : e.pair = d[1] => m < e.id
  BY Zenon, <1>1, <1>4
<1>. QED  BY <1>3, <1>7, <1>8, <1>9 DEF Good

\* RecomputeCheckpointFromEntries gives a good checkpoint to who holds the balance lock.
LEMMA RecomputeGood ==
  ASSUME PostInv, NEW d \in Dims, balLock[d[1]] \in Others
  PROVE  Good(d, Recompute(d))
<1> DEFINE E == OnDim(d, 0)  m == MaxId(E)
<1>1. /\ entries \subseteq Entries /\ seq \in Nat
      /\ \A e \in entries : e.id <= seq /\ e.id \in Nat
  BY Zenon DEF PostInv, PostTypeOK, IdsOrdered, Entries
<1>2. E \in SUBSET Entries /\ \A e \in E : e.id <= seq
  BY Zenon, <1>1 DEF OnDim, OnPair
<1>3. \A x \in Clients : \A e \in txE[x] : e.pair # d[1]
  BY ClientsAssumption DEF PostInv, RowsLocked
<1> HIDE DEF E
<1>4. m \in Nat /\ m <= seq /\ \A e \in E : e.id <= m
  <2>1. CASE E = {}
    BY <1>1, <2>1 DEF MaxId
  <2>2. CASE E # {}
    BY Zenon, <1>1, <1>2, <2>2, MaxIdIsLargest
  <2>. QED  BY Zenon, <2>1, <2>2
<1> HIDE DEF m
<1>5. {g \in E : g.id <= m} = E
  BY Zenon, <1>4
<1>6. Recompute(d) = [bal |-> Plus(Zero, Ids(E)), last |-> m]
  BY Zenon DEF Recompute, Checkpoint, m, E
<1>7. Exact(d, [bal |-> Plus(Zero, Ids(E)), last |-> m])
  BY Zenon, <1>5 DEF Exact, Ids, E
<1>. QED  BY <1>3, <1>4, <1>6, <1>7 DEF Good

\* The steps of a worker, its failures and its death.
LEMMA WorkerInv ==
  ASSUME RollupInv, NEW w \in Workers, WorkerStep(w) \/ FailItem(w) \/ CrashWorker(w)
  PROVE  RollupInv'
<1> USE DEF RollupInv
<1>1. UNCHANGED <<postVars, opVars, reading>>
  BY Zenon DEF WorkerStep, Dequeue, GetCheckpoint, SumEntries, Upsert, MarkProcessed, RecheckEntries,
     FailItem, CrashWorker
<1>2. PostInv' /\ UNCHANGED <<entries, seq, txE, balLock, opc, target>>
  BY Zenon, <1>1, PostNextInv DEF postVars, txVars, dbVars, lockVars, opVars
<1>3. RebuildLocked'
  BY Zenon, <1>2 DEF RebuildLocked
<1>4. \A r \in Readers : reading'[r].dim # <<>> =>
         reading'[r].dim \in Dims /\ Good(reading'[r].dim, reading'[r].base)
  BY Zenon, <1>1 DEF ReadersGood
<1>5. ASSUME \A d \in Dims : Good(d, cp'[d]), cp' = [d \in Dims |-> cp'[d]],
             batch' \in [Workers -> SUBSET Dims],
             wpc' = [v \in Workers |-> wpc'[v]], item' = [v \in Workers |-> item'[v]],
             val' = [v \in Workers |-> val'[v]],
             \A v \in Workers : wpc'[v] \in {"sum", "upsert"} => item'[v] \in Dims /\ Good(item'[v], val'[v])
      PROVE  RollupInv'
  <2>1. RollupShape'
    BY Zenon, <1>1, <1>2, <1>5 DEF RollupShape
  <2>. QED  BY Zenon, <1>2, <1>3, <1>4, <1>5, <2>1, LedgerStill
<1>6. CASE Dequeue(w)
  BY <1>5, <1>6 DEF Dequeue, RollupShape, WorkersGood
<1>7. CASE GetCheckpoint(w)
  <2>1. PICK d \in batch[w] : item' = [item EXCEPT ![w] = d] /\ val' = [val EXCEPT ![w] = cp[d]]
    BY Zenon, <1>7 DEF GetCheckpoint
  <2>2. d \in Dims /\ wpc' = [wpc EXCEPT ![w] = "sum"] /\ UNCHANGED <<cp, batch>>
    BY Zenon, <1>7 DEF GetCheckpoint, WorkersGood
  <2>. QED  BY Zenon, <1>5, <2>1, <2>2 DEF RollupShape, WorkersGood
<1>8. CASE SumEntries(w)
  <2>1. wpc[w] = "sum" /\ UNCHANGED <<cp, batch, item>> /\ item[w] \in Dims /\ Good(item[w], val[w])
    BY Zenon, <1>8 DEF SumEntries, WorkersGood
  <2>2. CASE OnPair(item[w][1], val[w].last) = {}
    <3>1. wpc' = [wpc EXCEPT ![w] = "done"] /\ UNCHANGED val
      BY Zenon, <1>8, <2>2 DEF SumEntries
    <3>. QED  BY Zenon, <1>5, <2>1, <3>1 DEF RollupShape, WorkersGood
  <2>3. CASE OnPair(item[w][1], val[w].last) # {}
    <3>1. wpc' = [wpc EXCEPT ![w] = "upsert"] /\ val' = [val EXCEPT ![w] = Advance(item[w], val[w])]
      BY Zenon, <1>8, <2>3 DEF SumEntries
    <3>2. Good(item[w], Advance(item[w], val[w]))
      BY Zenon, <2>1, <2>3, AdvanceGood
    <3>. QED  BY Zenon, <1>5, <2>1, <3>1, <3>2 DEF RollupShape, WorkersGood
  <2>. QED  BY Zenon, <2>2, <2>3
<1>9. CASE Upsert(w)
  <2>1. wpc' = [wpc EXCEPT ![w] = "mark"] /\ UNCHANGED <<batch, item, val>>
    BY Zenon, <1>9 DEF Upsert
  <2>2. item[w] \in Dims /\ Good(item[w], val[w])
    BY Zenon, <1>9 DEF Upsert, WorkersGood
  <2>3. cp' = [cp EXCEPT ![item[w]] = val[w]] \/ cp' = [cp EXCEPT ![item[w]] = cp[item[w]]]
    BY Zenon, <1>9 DEF Upsert
  <2>. QED  BY Zenon, <1>5, <2>1, <2>2, <2>3 DEF RollupShape, WorkersGood
<1>10. ASSUME UNCHANGED cp, \E v \in {"idle", "recheck"} : wpc' = [wpc EXCEPT ![w] = v],
              batch' = batch \/ batch' = [batch EXCEPT ![w] = @ \ {item[w]}] \/ batch' = [batch EXCEPT ![w] = {}],
              item' = item \/ item' = [item EXCEPT ![w] = <<>>],
              val' = val \/ val' = [val EXCEPT ![w] = Checkpoint(Zero, 0)]
       PROVE  RollupInv'
  <2>1. batch' \in [Workers -> SUBSET Dims]
    BY Zenon, <1>10 DEF WorkersGood
  <2>2. /\ wpc' = [v \in Workers |-> wpc'[v]] /\ item' = [v \in Workers |-> item'[v]]
        /\ val' = [v \in Workers |-> val'[v]] /\ cp' = [d \in Dims |-> cp'[d]]
        /\ wpc'[w] \notin {"sum", "upsert"}
        /\ \A v \in Workers \ {w} : wpc'[v] = wpc[v] /\ item'[v] = item[v] /\ val'[v] = val[v]
    BY Zenon, <1>10 DEF RollupShape
  <2>3. \A v \in Workers : wpc'[v] \in {"sum", "upsert"} => item'[v] \in Dims /\ Good(item'[v], val'[v])
    BY Zenon, <2>2 DEF WorkersGood
  <2>. QED  BY Zenon, <1>5, <1>10, <2>1, <2>2, <2>3
<1>11. CASE MarkProcessed(w) \/ RecheckEntries(w) \/ FailItem(w) \/ CrashWorker(w)
  BY Zenon, <1>10, <1>11 DEF MarkProcessed, RecheckEntries, FailItem, CrashWorker, FinishItem
<1>. QED  BY Zenon, <1>6, <1>7, <1>8, <1>9, <1>11 DEF WorkerStep

\* RebuildCheckpoint: the lock keeps writers of the pair out until the new checkpoint is
\* in place.
LEMMA OperatorInv ==
  ASSUME RollupInv, NEW o \in Operators, RebuildLock(o) \/ RebuildCheck(o) \/ RebuildWrite(o)
  PROVE  RollupInv'
<1> USE DEF RollupInv
<1>0. balLock \in [Pairs -> Clients \cup Others \cup {NoClient}] /\ o \in Others
  BY Zenon DEF PostInv, PostTypeOK, Operators
<1>1. ASSUME UNCHANGED <<txVars, idemLock, readers, dbVars, closeVars, answers, calls,
                         workerVars, reading>>,
             NEW p \in Pairs, NEW l \in Others \cup {NoClient},
             balLock[p] \notin Clients, balLock' = [balLock EXCEPT ![p] = l],
             opc' = [x \in Operators |-> opc'[x]], target' = [x \in Operators |-> target'[x]],
             cp' = [d \in Dims |-> cp'[d]], \A d \in Dims : Good(d, cp'[d]),
             RebuildLocked'
      PROVE  RollupInv'
  <2>1. PostInv'
    BY Zenon, <1>0, <1>1, OperatorKeepsPost
  <2>2. UNCHANGED <<entries, seq, txE, wpc, batch, item, val, reading>>
    BY Zenon, <1>1 DEF dbVars, txVars, workerVars
  <2>3. RollupShape'
    BY Zenon, <1>1, <2>2 DEF RollupShape
  <2>. QED  BY Zenon, <1>1, <2>1, <2>2, <2>3, LedgerStill DEF WorkersGood, ReadersGood
<1>2. CASE RebuildLock(o)
  <2>1. PICK d \in Dims : /\ balLock[d[1]] = NoClient
                          /\ balLock' = [balLock EXCEPT ![d[1]] = o]
                          /\ target' = [target EXCEPT ![o] = d]
    BY Zenon, <1>2 DEF RebuildLock
  <2>2. /\ opc' = [opc EXCEPT ![o] = "check"] /\ UNCHANGED cp
        /\ UNCHANGED <<txVars, idemLock, readers, dbVars, closeVars, answers, calls, workerVars, reading>>
    BY Zenon, <1>2 DEF RebuildLock
  <2>3. d[1] \in Pairs /\ NoClient \notin Clients \cup Others
    BY Zenon, ClientsAssumption DEF Dims
  <2>4. RebuildLocked'
    BY <1>0, <2>1, <2>2, <2>3 DEF RebuildLocked, RollupShape, Operators, Dims
  <2>. QED  BY ZenonT(30), <1>0, <1>1, <2>1, <2>2, <2>3, <2>4 DEF RollupShape
<1>3. ASSUME opc[o] # "idle", EndRebuild(o), cp' = [d \in Dims |-> cp'[d]], \A d \in Dims : Good(d, cp'[d])
      PROVE  RollupInv'
  <2>1. target[o] \in Dims /\ balLock[target[o][1]] = o /\ target[o][1] \in Pairs
    BY Zenon, <1>3 DEF RebuildLocked, Dims
  <2>2. /\ balLock' = [balLock EXCEPT ![target[o][1]] = NoClient]
        /\ opc' = [opc EXCEPT ![o] = "idle"] /\ target' = [target EXCEPT ![o] = <<>>]
        /\ UNCHANGED <<txVars, idemLock, readers, dbVars, closeVars, answers, calls, workerVars, reading>>
    BY Zenon, <1>3 DEF EndRebuild
  <2>3. RebuildLocked'
    BY Zenon, <1>0, <2>1, <2>2 DEF RebuildLocked, RollupShape, Operators, Dims
  <2>4. balLock[target[o][1]] \notin Clients
    BY Zenon, <1>0, <2>1, ClientsAssumption
  <2>. QED  BY Zenon, <1>1, <1>3, <2>1, <2>2, <2>3, <2>4 DEF RollupShape
<1>4. CASE RebuildCheck(o) /\ EndRebuild(o) /\ UNCHANGED cp
  BY Zenon, <1>3, <1>4 DEF RebuildCheck, RollupShape
<1>5. CASE /\ opc[o] = "check" /\ opc' = [opc EXCEPT ![o] = "write"]
           /\ UNCHANGED <<postVars, target, cp, workerVars, reading>>
  <2>1. PostInv' /\ UNCHANGED <<entries, seq, txE, balLock, wpc, batch, item, val, reading>>
    BY Zenon, <1>5, PostNextInv DEF postVars, dbVars, txVars, lockVars, workerVars
  <2>2. RollupShape' /\ RebuildLocked'
    BY Zenon, <1>5, <2>1 DEF RollupShape, RebuildLocked
  <2>. QED  BY Zenon, <1>5, <2>1, <2>2, LedgerStill DEF WorkersGood, ReadersGood
<1>6. CASE RebuildWrite(o)
  <2>1. opc[o] # "idle" /\ EndRebuild(o) /\ cp' = [cp EXCEPT ![target[o]] = Recompute(target[o])]
    BY Zenon, <1>6 DEF RebuildWrite
  <2>2. Good(target[o], Recompute(target[o])) /\ target[o] \in Dims
    BY Zenon, <1>0, <2>1, RecomputeGood DEF RebuildLocked
  <2>3. cp' = [d \in Dims |-> cp'[d]] /\ \A d \in Dims : Good(d, cp'[d])
    BY Zenon, <2>1, <2>2 DEF RollupShape
  <2>. QED  BY Zenon, <1>3, <2>1, <2>3
<1>. QED  BY Zenon, <1>2, <1>4, <1>5, <1>6 DEF RebuildCheck

\* The two statements of GetBalance, and ResetRollupClaim.
LEMMA ReaderInv ==
  ASSUME RollupInv,
         \/ \E r \in Readers : ReadCheckpoint(r) \/ ReadDelta(r)
         \/ \E d \in Dims : ResetRollupClaim(d)
  PROVE  RollupInv'
<1> USE DEF RollupInv
<1>1. UNCHANGED <<postVars, cp, workerVars, opVars>>
  BY Zenon DEF ReadCheckpoint, ReadDelta, ResetRollupClaim
<1>2. PostInv' /\ UNCHANGED <<entries, seq, txE, balLock, opc, target, wpc, batch, item, val>>
  BY Zenon, <1>1, PostNextInv DEF postVars, txVars, dbVars, lockVars, opVars, workerVars
<1>3. /\ reading' = [r \in Readers |-> reading'[r]]
      /\ \A r \in Readers : reading'[r].dim # <<>> =>
            reading'[r].dim \in Dims /\ Good(reading'[r].dim, reading'[r].base)
  BY DEF ReadCheckpoint, ReadDelta, ResetRollupClaim, ReadersGood, RollupShape
<1>4. RollupShape' /\ RebuildLocked'
  BY Zenon, <1>1, <1>2, <1>3 DEF RollupShape, RebuildLocked
<1>. QED  BY Zenon, <1>1, <1>2, <1>3, <1>4, LedgerStill DEF WorkersGood

-----------------------------------------------------------------------------
(* The theorems.                                                           *)

\* Every step keeps every checkpoint good.
LEMMA RollupNextInv == RollupInv /\ [RollupNext]_allVars => RollupInv'
<1> SUFFICES ASSUME RollupInv, [RollupNext]_allVars PROVE RollupInv'
  BY Zenon
<1>1. CASE UNCHANGED allVars
  <2>1. UNCHANGED <<postVars, cp, workerVars, opVars, reading>>
    BY Zenon, <1>1 DEF allVars, rollVars
  <2>2. PostInv' /\ UNCHANGED <<entries, seq, txE, balLock, opc, target, wpc, batch, item, val>>
    BY Zenon, <2>1, PostNextInv DEF RollupInv, postVars, txVars, dbVars, lockVars, opVars, workerVars
  <2>3. RollupShape' /\ RebuildLocked'
    BY Zenon, <2>1, <2>2 DEF RollupInv, RollupShape, RebuildLocked
  <2>. QED  BY Zenon, <2>1, <2>2, <2>3, LedgerStill DEF RollupInv, WorkersGood, ReadersGood
<1>. QED  BY Zenon, <1>1, PostStepInv, WorkerInv, OperatorInv, ReaderInv DEF RollupNext

\* Every behaviour of writers, workers, operators and readers stays within the invariant.
THEOREM RollupInvariant == RollupSpec => []RollupInv
BY RollupInitInv, RollupNextInv, PTL DEF RollupSpec

\* Every checkpoint sums exactly the committed entries of its dimension up to its
\* watermark, for any number of workers that lose claims, die and race with posts and
\* with RebuildCheckpoint.
THEOREM CheckpointsExact == RollupSpec => []CheckpointExact
<1>1. RollupInv => CheckpointExact
  BY Zenon DEF RollupInv, Good, CheckpointExact
<1>. QED  BY <1>1, RollupInvariant, PTL

\* GetBalance on a READ COMMITTED transaction is exact although its two statements see
\* different moments: the checkpoint of the first and the delta of the second fit.
THEOREM ReadsExact == RollupSpec => ReadExact
<1>1. RollupInv /\ [RollupNext]_allVars =>
         [\A r \in Readers :
             reading[r].dim # <<>> /\ reading'[r].dim = <<>> =>
                reading'[r].ans = Plus(Zero, Ids(OnDim(reading[r].dim, 0)))]_allVars
  <2> SUFFICES ASSUME RollupInv, RollupNext, NEW r \in Readers,
                      reading[r].dim # <<>>, reading'[r].dim = <<>>
               PROVE  reading'[r].ans = Plus(Zero, Ids(OnDim(reading[r].dim, 0)))
    BY Zenon
  <2>1. reading' # reading
    BY Zenon
  <2>2. PICK x \in Readers : ReadCheckpoint(x) \/ ReadDelta(x)
    BY <2>1, Zenon DEF RollupNext, PostStep, rollVars, WorkerStep, Dequeue, GetCheckpoint, SumEntries,
       Upsert, MarkProcessed, RecheckEntries, FailItem, CrashWorker, ResetRollupClaim,
       RebuildLock, RebuildCheck, RebuildWrite, EndRebuild
  <2>3. ReadDelta(r)
    BY Zenon, <2>2 DEF ReadCheckpoint, ReadDelta, RollupInv, RollupShape
  <2>4. reading'[r].ans = Plus(reading[r].base.bal, Ids(OnDim(reading[r].dim, reading[r].base.last)))
    BY Zenon, <2>3 DEF ReadDelta, RollupInv, RollupShape
  <2>5. entries \subseteq Entries
    BY Zenon DEF RollupInv, PostInv, PostTypeOK
  <2>6. reading[r].base.last \in Nat /\ Exact(reading[r].dim, reading[r].base)
    BY Zenon DEF RollupInv, ReadersGood, Good
  <2>. QED  BY Zenon, <2>4, <2>5, <2>6, DeltaCompletes
<1>. QED  BY <1>1, RollupInvariant, PTL DEF RollupSpec, ReadExact
================================================================================
