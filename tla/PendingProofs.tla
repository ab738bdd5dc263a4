---------------------------- MODULE PendingProofs ----------------------------
(***************************************************************************)
(* The pending balance of a holder is never overdrawn, for every set of    *)
(* callers, sweepers, keys and amounts.                                    *)
(*                                                                         *)
(* The balance is a sum over journals; the lemmas about sums are those of  *)
(* ReserverProofs.                                                         *)
(***************************************************************************)
EXTENDS Pending, ReserverProofs

PendingShape ==
    /\ \E S : log \in Seq(S)
    /\ IsFiniteSet(Posted)
    /\ \A j \in Posted : j.amt \in Nat
    /\ pairLock \in [{"system", "user"} -> Depositors \cup {NoDepositor}]
    /\ at = [c \in Depositors |-> at[c]]
    /\ req = [c \in Depositors |-> req[c]]
    /\ verified \in [Depositors -> Int]

\* Two calls never hold the idempotency lock of one key.
KeyLocksApart == \A l, m \in keyLock : l[1] = m[1] => l[2] = m[2]

\* What a call has established at each place: its key is locked, nothing has been posted
\* under it since it looked again, and the balance it was measured against is locked and
\* still suffices.
CallerKnows(c) ==
    /\ at[c] # "idle" => req[c].amt \in Nat
    /\ at[c] = "gate" => req[c].op # "add"
    /\ at[c] \in {"recheck", "bal", "gate", "post"} => <<req[c].key, c>> \in keyLock
    /\ at[c] \in {"gate", "post"} \/ (at[c] = "bal" /\ req[c].op = "add")
          => ByKey(req[c].key) = {}
    /\ at[c] = "post" \/ (at[c] \in {"recheck", "gate"} /\ req[c].op # "add")
          => pairLock["user"] = c
    /\ at[c] = "post" /\ req[c].op # "add" => req[c].amt <= PendingBalance

PendingInv ==
    /\ PendingShape /\ KeyLocksApart /\ NeverOverdrawn
    /\ \A c \in Depositors : CallerKnows(c)

\* The pending balance is an integer.
LEMMA PendingBalanceInt ==
    ASSUME PendingShape
    PROVE  PendingBalance \in Int
<1> DEFINE f == [j \in Posted |-> Effect(j)]
<1>1. \A j \in Posted : f[j] \in Int
    BY DEF PendingShape, Effect
<1>2. IsFiniteSet(Posted) /\ Posted \in SUBSET Posted
    BY Zenon DEF PendingShape
<1>. HIDE DEF f
<1>3. SumFunctionOnSet(f, Posted) \in Int
    BY <1>1, <1>2, SumInt, Zenon
<1>. QED  BY <1>3, Zenon DEF PendingBalance, f

\* A journal under a new key moves the pending balance by its effect.
LEMMA PostedMoves ==
    ASSUME PendingShape, NEW STATE e, e \notin Posted, e.amt \in Nat,
           log' = Append(log, e)
    PROVE  /\ Posted' = Posted \cup {e} /\ IsFiniteSet(Posted')
           /\ \E S : log' \in Seq(S)
           /\ PendingBalance' = Effect(e) + PendingBalance
<1>1. PICK S : log \in Seq(S)
    BY Zenon DEF PendingShape
<1>2. PICK x : x = e
    BY Zenon
<1>3. log \in Seq(S \cup {x})
    BY <1>1
<1>4. /\ log' \in Seq(S \cup {x}) /\ Len(log) \in Nat
      /\ DOMAIN log = 1..Len(log) /\ DOMAIN log' = 1..(Len(log) + 1)
      /\ \A i \in 1..Len(log) : log'[i] = log[i]
      /\ log'[Len(log) + 1] = x
    BY <1>2, <1>3
<1>5. Posted' = Posted \cup {x}
    <2>1. \A y \in Posted' : y \in Posted \cup {x}
        BY <1>4 DEF Posted
    <2>2. \A y \in Posted : y \in Posted'
        BY <1>4 DEF Posted
    <2>3. x \in Posted'
        BY <1>4 DEF Posted
    <2>. QED  BY <2>1, <2>2, <2>3, Zenon
<1>6. IsFiniteSet(Posted')
    BY <1>5, FS_AddElement, Zenon DEF PendingShape
<1>7. PendingBalance' = Effect(x) + PendingBalance
    <2>1. PICK P : P = Posted
        BY Zenon
    <2> DEFINE f == [j \in P |-> Effect(j)]
               g == [j \in P \cup {x} |-> Effect(j)]
    <2>2. \A j \in P \cup {x} : g[j] \in Int
        BY <1>2, <2>1 DEF PendingShape, Effect
    <2>3. \A j \in P : f[j] \in Int /\ f[j] = g[j]
        BY <2>2, Zenon
    <2>4. IsFiniteSet(P) /\ x \notin P /\ g[x] = Effect(x)
        BY <1>2, <2>1, Zenon DEF PendingShape
    <2>. HIDE DEF f, g
    <2>5. SumFunctionOnSet(g, P \cup {x}) = g[x] + SumFunctionOnSet(g, P)
        BY <2>2, <2>4, SumAdd
    <2>6. SumFunctionOnSet(f, P) = SumFunctionOnSet(g, P)
        BY <2>3, <2>4, SumSame
    <2>7. PendingBalance = SumFunctionOnSet(f, P)
        BY <2>1, Zenon DEF PendingBalance, f
    <2>8. PendingBalance' = SumFunctionOnSet(g, P \cup {x})
        BY <1>5, <2>1, Zenon DEF PendingBalance, g, Effect
    <2>. QED  BY <2>4, <2>5, <2>6, <2>7, <2>8, Zenon
<1>. QED  BY <1>2, <1>4, <1>5, <1>6, <1>7, Zenon DEF Effect

\* Nothing posted: the balance stands.
LEMMA NothingPosted ==
    ASSUME log' = log
    PROVE  Posted' = Posted /\ PendingBalance' = PendingBalance /\ \A k : ByKey(k)' = ByKey(k)
BY Zenon DEF Posted, PendingBalance, ByKey, Effect

\* The lesser of two integers.
LEMMA LesserOf ==
    ASSUME NEW a \in Int, NEW b \in Int
    PROVE  Min({a, b}) \in {a, b} /\ Min({a, b}) <= a /\ Min({a, b}) <= b
<1>1. \E x \in {a, b} : \A y \in {a, b} : x <= y
    <2>1. CASE a <= b
        BY <2>1
    <2>2. CASE ~(a <= b)
        BY <2>2
    <2>. QED  BY <2>1, <2>2, Zenon
<1>2. Min({a, b}) \in {a, b} /\ \A y \in {a, b} : Min({a, b}) <= y
    BY <1>1, Zenon DEF Min
<1>. QED  BY <1>2, Zenon

\* A set of numbers that is not empty has a smallest one.
LEMMA SmallestOf ==
    ASSUME NEW S \in SUBSET Nat, S # {}
    PROVE  Min(S) \in S
<1>1. PICK m \in S : \A y \in S : ~ (<<y, m>> \in OpToRel(<, Nat))
    BY WFMin, NatLessThanWellFounded, Zenon
<1>2. \A y \in S : ~ (y < m)
    BY <1>1, Zenon DEF OpToRel
<1>3. \A y \in S : m <= y
    BY <1>2
<1>. QED  BY <1>3, Zenon DEF Min

\* Of calls other than c's, nothing changes and no lock is taken away.
OnlyCaller(c) ==
    /\ \A d \in Depositors \ {c} : at'[d] = at[d] /\ req'[d] = req[d]
    /\ \A d \in Depositors \ {c} : \A k : <<k, d>> \in keyLock => <<k, d>> \in keyLock'
    /\ \A d \in Depositors \ {c} : pairLock["user"] = d => pairLock'["user"] = d

\* Such a step, when it posts nothing.
LEMMA CallersKept ==
    ASSUME PendingInv, NEW c \in Depositors, OnlyCaller(c), log' = log,
           PendingShape', KeyLocksApart', CallerKnows(c)'
    PROVE  PendingInv'
<1>1. PendingBalance' = PendingBalance /\ \A k : ByKey(k)' = ByKey(k)
    BY NothingPosted, Zenon
<1>2. ASSUME NEW d \in Depositors \ {c} PROVE CallerKnows(d)'
    <2>1. CallerKnows(d) /\ at'[d] = at[d] /\ req'[d] = req[d]
        BY Zenon DEF PendingInv, OnlyCaller
    <2>2. PICK k : k = req[d].key
        BY Zenon
    <2>3. ByKey(k)' = ByKey(k)
        BY <1>1, Zenon
    <2>4. ByKey(req[d].key) = {} => ByKey(req[d].key)' = {}
        BY <2>1, <2>2, <2>3, Zenon DEF ByKey
    <2>. QED  BY <1>1, <2>1, <2>4, Zenon DEF CallerKnows, OnlyCaller
<1>3. NeverOverdrawn'
    BY <1>1, Zenon DEF PendingInv, NeverOverdrawn
<1>. QED  BY <1>2, <1>3, Zenon DEF PendingInv

\* The end of a call, whatever it has posted.
LEMMA Finishes ==
    ASSUME PendingInv, NEW c \in Depositors, NEW how, Finish(c, how)
    PROVE  /\ OnlyCaller(c) /\ KeyLocksApart' /\ at'[c] = "idle"
           /\ pairLock' \in [{"system", "user"} -> Depositors \cup {NoDepositor}]
           /\ at' = [d \in Depositors |-> at'[d]]
           /\ req' = [d \in Depositors |-> req'[d]]
           /\ verified' \in [Depositors -> Int]
<1>1. PendingShape /\ KeyLocksApart
    BY Zenon DEF PendingInv
<1>2. /\ at' = [at EXCEPT ![c] = "idle"] /\ req' = [req EXCEPT ![c] = NoRequest]
      /\ verified' = [verified EXCEPT ![c] = 0]
      /\ keyLock' = {l \in keyLock : l[2] # c}
      /\ pairLock' = [p \in DOMAIN pairLock |-> IF pairLock[p] = c THEN NoDepositor ELSE pairLock[p]]
    BY Zenon DEF Finish, Move
<1>3. \A d \in Depositors \ {c} : at'[d] = at[d] /\ req'[d] = req[d]
    BY <1>1, <1>2, Zenon DEF PendingShape
<1>4. ASSUME NEW d \in Depositors \ {c}, NEW k, <<k, d>> \in keyLock PROVE <<k, d>> \in keyLock'
    <2>1. <<k, d>>[2] = d /\ d # c
        BY Zenon
    <2>. QED  BY <1>2, <1>4, <2>1, Zenon
<1>5. \A d \in Depositors \ {c} : pairLock["user"] = d => pairLock'["user"] = d
    BY <1>1, <1>2, Zenon DEF PendingShape
<1>6. KeyLocksApart'
    BY <1>1, <1>2, Zenon DEF KeyLocksApart
<1>7. pairLock' \in [{"system", "user"} -> Depositors \cup {NoDepositor}]
    BY <1>1, <1>2, Zenon DEF PendingShape
<1>8. /\ at' = [d \in Depositors |-> at'[d]] /\ req' = [d \in Depositors |-> req'[d]]
      /\ at'[c] = "idle"
    BY <1>1, <1>2, Zenon DEF PendingShape
<1>9. verified' \in [Depositors -> Int]
    BY <1>1, <1>2 DEF PendingShape
<1>. QED  BY <1>3, <1>4, <1>5, <1>6, <1>7, <1>8, <1>9, Zenon DEF OnlyCaller

\* A call that ends without posting.
LEMMA FinishInv ==
    ASSUME PendingInv, NEW c \in Depositors, NEW how, Finish(c, how), log' = log
    PROVE  PendingInv'
<1>1. /\ OnlyCaller(c) /\ KeyLocksApart' /\ at'[c] = "idle"
      /\ pairLock' \in [{"system", "user"} -> Depositors \cup {NoDepositor}]
      /\ at' = [d \in Depositors |-> at'[d]]
      /\ req' = [d \in Depositors |-> req'[d]]
      /\ verified' \in [Depositors -> Int]
    BY Finishes, Zenon
<1>2. PendingShape'
    BY <1>1, NothingPosted, Zenon DEF PendingInv, PendingShape
<1>3. CallerKnows(c)'
    BY <1>1, Zenon DEF CallerKnows
<1>. QED  BY <1>1, <1>2, <1>3, CallersKept, Zenon

\* AlreadyPosted answers with the journal found and posts nothing.
LEMMA AlreadyPostedInv ==
    ASSUME PendingInv, NEW c \in Depositors, AlreadyPosted(c)
    PROVE  PendingInv'
<1>1. PICK j : Finish(c, IF j.kind = req[c].op /\ j.amt = req[c].amt THEN "replayed" ELSE "conflict")
    BY Zenon DEF AlreadyPosted
<1>2. log' = log
    BY Zenon DEF AlreadyPosted
<1>. QED  BY <1>1, <1>2, FinishInv, Zenon

\* A step to place l that takes no lock and posts nothing.
LEMMA AdvanceInv ==
    ASSUME PendingInv, NEW c \in Depositors, NEW l, Advance(c, l), UNCHANGED pendingLocks,
           CallerKnows(c)'
    PROVE  PendingInv'
<1>1. /\ at' = [at EXCEPT ![c] = l] /\ UNCHANGED <<log, req, verified, keyLock, pairLock>>
    BY Zenon DEF Advance, Move, pendingLocks
<1>2. PendingShape'
    <2>1. at' = [d \in Depositors |-> at'[d]]
        BY <1>1, Zenon DEF PendingInv, PendingShape
    <2>. QED  BY <1>1, <2>1, NothingPosted, Zenon DEF PendingInv, PendingShape
<1>3. OnlyCaller(c)
    BY <1>1, Zenon DEF PendingInv, PendingShape, OnlyCaller
<1>4. KeyLocksApart'
    BY <1>1, Zenon DEF PendingInv, KeyLocksApart
<1>. QED  BY <1>1, <1>2, <1>3, <1>4, CallersKept, Zenon

\* After it, c is at l and knows what it knew.
LEMMA Advanced ==
    ASSUME PendingInv, NEW c \in Depositors, NEW l, Advance(c, l), UNCHANGED pendingLocks
    PROVE  /\ at'[c] = l /\ req'[c] = req[c] /\ UNCHANGED <<log, keyLock, pairLock>>
           /\ PendingBalance' = PendingBalance
           /\ ByKey(req[c].key) = {} => ByKey(req[c].key)' = {}
<1>1. /\ at' = [at EXCEPT ![c] = l] /\ UNCHANGED <<log, req, verified, keyLock, pairLock>>
    BY Zenon DEF Advance, Move, pendingLocks
<1>2. at'[c] = l
    BY <1>1, Zenon DEF PendingInv, PendingShape
<1>3. ByKey(req[c].key) = {} => ByKey(req[c].key)' = {}
    BY <1>1, Zenon DEF ByKey, Posted
<1>. QED  BY <1>1, <1>2, <1>3, NothingPosted, Zenon

\* The first look at the key.
LEMMA FirstLookInv ==
    ASSUME PendingInv, NEW c \in Depositors, FirstLook(c) PROVE PendingInv'
<1>1. CASE AlreadyPosted(c)
    BY <1>1, AlreadyPostedInv, Zenon
<1>2. CASE ~AlreadyPosted(c)
    <2> DEFINE l == IF req[c].op = "confirm" /\ Gated THEN "verify" ELSE "idem"
    <2>1. at[c] = "lookup" /\ Advance(c, l) /\ UNCHANGED pendingLocks /\ l \in {"verify", "idem"}
        BY <1>2, Zenon DEF FirstLook
    <2>. HIDE DEF l
    <2>2. at'[c] = l /\ req'[c] = req[c]
        BY <2>1, Advanced, Zenon
    <2>3. CallerKnows(c)'
        BY <2>1, <2>2, Zenon DEF PendingInv, CallerKnows
    <2>. QED  BY <2>1, <2>3, AdvanceInv, Zenon
<1>. QED  BY <1>1, <1>2, Zenon

\* The second look at the key.
LEMMA RecheckInv ==
    ASSUME PendingInv, NEW c \in Depositors, Recheck(c) PROVE PendingInv'
<1>1. CASE AlreadyPosted(c)
    BY <1>1, AlreadyPostedInv, Zenon
<1>2. CASE ~AlreadyPosted(c)
    <2> DEFINE l == IF req[c].op = "add" THEN "bal" ELSE "gate"
    <2>1. /\ at[c] = "recheck" /\ Advance(c, l) /\ UNCHANGED pendingLocks
          /\ ByKey(req[c].key) = {}
          /\ \/ l = "bal" /\ req[c].op = "add"
             \/ l = "gate" /\ req[c].op # "add"
        BY <1>2, Zenon DEF Recheck
    <2>. HIDE DEF l
    <2>2. /\ at'[c] = l /\ req'[c] = req[c] /\ ByKey(req[c].key)' = {}
          /\ keyLock' = keyLock /\ pairLock' = pairLock
        BY <2>1, Advanced, Zenon
    <2>3. CallerKnows(c)'
        BY <2>1, <2>2, Zenon DEF PendingInv, CallerKnows
    <2>. QED  BY <2>1, <2>3, AdvanceInv, Zenon
<1>. QED  BY <1>1, <1>2, Zenon

\* The gate, under the balance locks.
LEMMA GateInv ==
    ASSUME PendingInv, NEW c \in Depositors, Gate(c) PROVE PendingInv'
<1> DEFINE base == IF req[c].op = "confirm" /\ Gated
                   THEN Min({verified[c], PendingBalance}) ELSE PendingBalance
<1>1. CASE base < req[c].amt
    <2>1. Finish(c, "insufficient") /\ log' = log
        BY <1>1, Zenon DEF Gate
    <2>. QED  BY <2>1, FinishInv, Zenon
<1>2. CASE ~(base < req[c].amt)
    <2>1. at[c] = "gate" /\ Advance(c, "post") /\ UNCHANGED pendingLocks
        BY <1>2, Zenon DEF Gate
    <2>2. PendingBalance \in Int /\ verified[c] \in Int /\ req[c].amt \in Nat
        BY <2>1, PendingBalanceInt, Zenon DEF PendingInv, PendingShape, CallerKnows
    <2>3. base \in Int /\ base <= PendingBalance
        <3>1. Min({verified[c], PendingBalance}) \in Int
              /\ Min({verified[c], PendingBalance}) <= PendingBalance
            BY <2>2, LesserOf, Zenon
        <3>. QED  BY <2>2, <3>1
    <2>. HIDE DEF base
    <2>4. req[c].amt <= PendingBalance
        BY <1>2, <2>2, <2>3
    <2>5. /\ at'[c] = "post" /\ req'[c] = req[c] /\ keyLock' = keyLock /\ pairLock' = pairLock
          /\ PendingBalance' = PendingBalance
          /\ ByKey(req[c].key) = {} => ByKey(req[c].key)' = {}
        BY <2>1, Advanced, Zenon
    <2>6. /\ <<req[c].key, c>> \in keyLock /\ pairLock["user"] = c
          /\ ByKey(req[c].key) = {}
        <3>1. CallerKnows(c)
            BY Zenon DEF PendingInv
        <3>2. at[c] \in {"recheck", "bal", "gate", "post"} /\ at[c] \in {"gate", "post"}
            BY <2>1, Zenon
        <3>3. pairLock["user"] = c
            BY <2>1, <3>1, Zenon DEF CallerKnows
        <3>. QED  BY <3>1, <3>2, <3>3, Zenon DEF CallerKnows
    <2>7. CallerKnows(c)'
        BY <2>2, <2>4, <2>5, <2>6, Zenon DEF CallerKnows
    <2>. QED  BY <2>1, <2>7, AdvanceInv, Zenon
<1>. QED  BY <1>1, <1>2, Zenon

\* A step that posts nothing and leaves the locks, or takes one for c.
LEMMA TakesLock ==
    ASSUME PendingInv, NEW c \in Depositors, NEW l, Advance(c, l),
           keyLock \subseteq keyLock',
           \A p \in {"system", "user"} : pairLock'[p] = pairLock[p] \/ pairLock[p] = NoDepositor,
           pairLock' \in [{"system", "user"} -> Depositors \cup {NoDepositor}]
    PROVE  /\ OnlyCaller(c) /\ PendingShape' /\ log' = log
           /\ at'[c] = l /\ req'[c] = req[c] /\ PendingBalance' = PendingBalance
           /\ ByKey(req[c].key) = {} => ByKey(req[c].key)' = {}
<1>1. at' = [at EXCEPT ![c] = l] /\ UNCHANGED <<log, req, verified>>
    BY Zenon DEF Advance, Move
<1>2. at' = [d \in Depositors |-> at'[d]] /\ at'[c] = l /\ \A d \in Depositors \ {c} : at'[d] = at[d]
    BY <1>1, Zenon DEF PendingInv, PendingShape
<1>3. PendingShape'
    BY <1>1, <1>2, NothingPosted, Zenon DEF PendingInv, PendingShape
<1>4. OnlyCaller(c)
    BY <1>1, <1>2, PendingAssumption, Zenon DEF OnlyCaller
<1>5. ByKey(req[c].key) = {} => ByKey(req[c].key)' = {}
    BY <1>1, Zenon DEF ByKey, Posted
<1>. QED  BY <1>1, <1>2, <1>3, <1>4, <1>5, NothingPosted, Zenon

\* The idempotency lock.
LEMMA LockKeyInv ==
    ASSUME PendingInv, NEW c \in Depositors, LockKey(c) PROVE PendingInv'
<1> DEFINE l == IF req[c].op = "add" THEN "recheck" ELSE "bal"
<1>1. /\ at[c] = "idem" /\ \A m \in keyLock : m[1] # req[c].key
      /\ keyLock' = keyLock \cup {<<req[c].key, c>>} /\ pairLock' = pairLock
      /\ Advance(c, l)
      /\ \/ l = "recheck" /\ req[c].op = "add"
         \/ l = "bal" /\ req[c].op # "add"
    BY Zenon DEF LockKey
<1>. HIDE DEF l
<1>2. /\ OnlyCaller(c) /\ PendingShape' /\ log' = log
      /\ at'[c] = l /\ req'[c] = req[c] /\ PendingBalance' = PendingBalance
      /\ ByKey(req[c].key) = {} => ByKey(req[c].key)' = {}
    BY <1>1, TakesLock, Zenon DEF PendingInv, PendingShape
<1>3. KeyLocksApart'
    <2> DEFINE new == <<req[c].key, c>>
    <2>1. new[1] = req[c].key /\ new[2] = c /\ keyLock' = keyLock \cup {new}
        BY <1>1, Zenon
    <2>. HIDE DEF new
    <2>2. \A m \in keyLock : m[1] # new[1]
        BY <1>1, <2>1, Zenon
    <2>3. \A m, n \in keyLock' : m[1] = n[1] => m = n \/ (m \in keyLock /\ n \in keyLock)
        BY <2>1, <2>2, Zenon
    <2>. QED  BY <2>3, Zenon DEF PendingInv, KeyLocksApart
<1>4. <<req[c].key, c>> \in keyLock'
    BY <1>1, Zenon
<1>5. CallerKnows(c)'
    BY <1>1, <1>2, <1>4, Zenon DEF PendingInv, CallerKnows
<1>. QED  BY <1>2, <1>3, <1>5, CallersKept, Zenon

\* The balance locks, the system's before the user's.
LEMMA LockPairsInv ==
    ASSUME PendingInv, NEW c \in Depositors, LockPairs(c) PROVE PendingInv'
<1>0. Pairs[1] = "system" /\ Pairs[2] = "user" /\ Pairs[1] # Pairs[2]
    BY DEF Pairs
<1>1. PICK want \in {"system", "user"} :
          /\ at[c] = "bal" /\ pairLock[want] = NoDepositor /\ keyLock' = keyLock
          /\ pairLock' = [pairLock EXCEPT ![want] = c]
          /\ Advance(c, IF want = Pairs[1] THEN "bal"
                        ELSE IF req[c].op = "add" THEN "post" ELSE "recheck")
    BY <1>0, Zenon DEF LockPairs
<1> DEFINE l == IF want = Pairs[1] THEN "bal" ELSE IF req[c].op = "add" THEN "post" ELSE "recheck"
<1>2. /\ pairLock'[want] = c
      /\ \A p \in {"system", "user"} : pairLock'[p] = pairLock[p] \/ pairLock[p] = NoDepositor
      /\ pairLock' \in [{"system", "user"} -> Depositors \cup {NoDepositor}]
    BY <1>1, Zenon DEF PendingInv, PendingShape
<1>3. \/ l = "bal"
      \/ l = "post" /\ req[c].op = "add" /\ want = "user"
      \/ l = "recheck" /\ req[c].op # "add" /\ want = "user"
    BY <1>0, Zenon
<1>4. Advance(c, l)
    BY <1>1, Zenon
<1>. HIDE DEF l
<1>5. /\ OnlyCaller(c) /\ PendingShape' /\ log' = log
      /\ at'[c] = l /\ req'[c] = req[c] /\ PendingBalance' = PendingBalance
      /\ ByKey(req[c].key) = {} => ByKey(req[c].key)' = {}
    BY <1>1, <1>2, <1>4, TakesLock, Zenon
<1>6. KeyLocksApart'
    BY <1>1, Zenon DEF PendingInv, KeyLocksApart
<1>7. CallerKnows(c)'
    BY <1>1, <1>2, <1>3, <1>5, Zenon DEF PendingInv, CallerKnows
<1>. QED  BY <1>5, <1>6, <1>7, CallersKept, Zenon

\* A post: nobody else is past the second look with its key, nor at the gate.
LEMMA PostInv ==
    ASSUME PendingInv, NEW c \in Depositors, Post(c) PROVE PendingInv'
<1> DEFINE e == [key |-> req[c].key, kind |-> req[c].op, amt |-> req[c].amt]
<1>1. at[c] = "post" /\ log' = Append(log, e) /\ Finish(c, "posted")
    BY Zenon DEF Post
<1>2. /\ req[c].amt \in Nat /\ <<req[c].key, c>> \in keyLock
      /\ ByKey(req[c].key) = {} /\ pairLock["user"] = c
      /\ req[c].op # "add" => req[c].amt <= PendingBalance
    BY <1>1, Zenon DEF PendingInv, CallerKnows
<1>3. e.key = req[c].key /\ e.kind = req[c].op /\ e.amt = req[c].amt
    BY Zenon
<1>. HIDE DEF e
<1>4. e \notin Posted /\ e.amt \in Nat /\ PendingShape
    BY <1>2, <1>3, Zenon DEF ByKey, PendingInv
<1>5. /\ Posted' = Posted \cup {e} /\ IsFiniteSet(Posted') /\ \E S : log' \in Seq(S)
      /\ PendingBalance' = Effect(e) + PendingBalance
    BY <1>1, <1>4, PostedMoves, Zenon
<1>6. /\ OnlyCaller(c) /\ KeyLocksApart' /\ at'[c] = "idle"
      /\ pairLock' \in [{"system", "user"} -> Depositors \cup {NoDepositor}]
      /\ at' = [d \in Depositors |-> at'[d]]
      /\ req' = [d \in Depositors |-> req'[d]]
      /\ verified' \in [Depositors -> Int]
    BY <1>1, Finishes, Zenon
<1>7. PendingShape'
    BY <1>4, <1>5, <1>6, Zenon DEF PendingShape
<1>8. NeverOverdrawn'
    <2>1. PendingBalance \in Int /\ PendingBalance >= 0
        BY <1>4, PendingBalanceInt, Zenon DEF PendingInv, NeverOverdrawn
    <2>2. CASE req[c].op = "add"
        BY <1>2, <1>3, <1>5, <2>1, <2>2 DEF Effect, NeverOverdrawn
    <2>3. CASE req[c].op # "add"
        BY <1>2, <1>3, <1>5, <2>1, <2>3 DEF Effect, NeverOverdrawn
    <2>. QED  BY <2>2, <2>3, Zenon
<1>9. ASSUME NEW d \in Depositors \ {c} PROVE CallerKnows(d)'
    <2>1. CallerKnows(d) /\ at'[d] = at[d] /\ req'[d] = req[d]
        BY <1>6, Zenon DEF PendingInv, OnlyCaller
    <2>2. at[d] # "post"
        <3>1. pairLock["user"] # d
            BY <1>2, Zenon
        <3>. QED  BY <2>1, <3>1, Zenon DEF CallerKnows
    <2>3. ASSUME <<req[d].key, d>> \in keyLock, ByKey(req[d].key) = {}
          PROVE  ByKey(req[d].key)' = {}
        <3>1. req[d].key # req[c].key
            <4>1. /\ <<req[d].key, d>>[1] = req[d].key /\ <<req[d].key, d>>[2] = d
                  /\ <<req[c].key, c>>[1] = req[c].key /\ <<req[c].key, c>>[2] = c
                BY Zenon
            <4>2. PICK l \in keyLock : l = <<req[d].key, d>>
                BY <2>3, Zenon
            <4>3. PICK m \in keyLock : m = <<req[c].key, c>>
                BY <1>2, Zenon
            <4>4. l[1] # m[1]
                BY <4>1, <4>2, <4>3, Zenon DEF PendingInv, KeyLocksApart
            <4>. QED  BY <4>1, <4>2, <4>3, <4>4, Zenon
        <3>2. \A j \in Posted' : j.key # req[d].key
            BY <1>3, <1>5, <2>3, <3>1, Zenon DEF ByKey
        <3>. QED  BY <2>1, <3>2, Zenon DEF ByKey
    <2>4. \A k : <<k, d>> \in keyLock => <<k, d>> \in keyLock'
        BY <1>6, Zenon DEF OnlyCaller
    <2>5. pairLock["user"] = d => pairLock'["user"] = d
        BY <1>6, Zenon DEF OnlyCaller
    <2>. QED  BY <2>1, <2>2, <2>3, <2>4, <2>5, Zenon DEF CallerKnows
<1>10. CallerKnows(c)'
    BY <1>6, Zenon DEF CallerKnows
<1>. QED  BY <1>6, <1>7, <1>8, <1>9, <1>10, Zenon DEF PendingInv

\* A call begins; it holds no lock and has read nothing.
LEMMA BeginsInv ==
    ASSUME PendingInv, NEW c \in Depositors, NEW r, r.amt \in Nat, NEW l \in {"idem", "lookup"},
           req' = [req EXCEPT ![c] = r], Move(c, l), UNCHANGED <<log, pendingLocks, verified>>
    PROVE  PendingInv'
<1>1. at' = [at EXCEPT ![c] = l] /\ UNCHANGED <<log, keyLock, pairLock, verified>>
    BY Zenon DEF Move, pendingLocks
<1>2. /\ at' = [d \in Depositors |-> at'[d]] /\ at'[c] = l
      /\ req' = [d \in Depositors |-> req'[d]] /\ req'[c] = r
      /\ \A d \in Depositors \ {c} : at'[d] = at[d] /\ req'[d] = req[d]
    BY <1>1, Zenon DEF PendingInv, PendingShape
<1>3. PendingShape'
    <2>1. Posted' = Posted /\ PendingShape
        BY <1>1, NothingPosted, Zenon DEF PendingInv
    <2>2. (\E S : log' \in Seq(S)) /\ IsFiniteSet(Posted') /\ \A j \in Posted' : j.amt \in Nat
        BY <1>1, <2>1, Zenon DEF PendingShape
    <2>3. /\ pairLock' \in [{"system", "user"} -> Depositors \cup {NoDepositor}]
          /\ verified' \in [Depositors -> Int]
        BY <1>1, <2>1, Zenon DEF PendingShape
    <2>. QED  BY <1>2, <2>2, <2>3, Zenon DEF PendingShape
<1>4. OnlyCaller(c)
    BY <1>1, <1>2, Zenon DEF OnlyCaller
<1>5. KeyLocksApart'
    BY <1>1, Zenon DEF PendingInv, KeyLocksApart
<1>6. CallerKnows(c)'
    BY <1>2, Zenon DEF CallerKnows
<1>. QED  BY <1>1, <1>3, <1>4, <1>5, <1>6, CallersKept, Zenon

\* AddPending, ConfirmPending and CancelPending.
LEMMA RequestInv ==
    ASSUME PendingInv, NEW c \in Depositors, NEW op, Request(c, op) PROVE PendingInv'
<1>1. PICK k \in DepositKeys, a \in Deposits :
          req' = [req EXCEPT ![c] = [op |-> op, key |-> <<"key", k>>, amt |-> a]]
    BY Zenon DEF Request
<1>2. [op |-> op, key |-> <<"key", k>>, amt |-> a].amt \in Nat
    <2>1. a \in Nat
        BY PendingAssumption, Zenon
    <2>. QED  BY <2>1, Zenon
<1>3. /\ Move(c, IF op = "add" THEN "idem" ELSE "lookup")
      /\ UNCHANGED <<log, pendingLocks, verified>>
    BY Zenon DEF Request
<1>4. PICK r : r = [op |-> op, key |-> <<"key", k>>, amt |-> a]
    BY Zenon
<1>5. PICK l \in {"idem", "lookup"} : l = IF op = "add" THEN "idem" ELSE "lookup"
    BY Zenon
<1>. QED  BY <1>1, <1>2, <1>3, <1>4, <1>5, BeginsInv, Zenon

\* The timeout sweep begins a cancel, of no more than is pending.
LEMMA ExpireInv ==
    ASSUME PendingInv, NEW c \in Depositors, ExpirePendingOlderThan(c) PROVE PendingInv'
<1>1. PICK j : j = log[Min(Stale)]
    BY Zenon
<1>2. /\ Stale # {} /\ PendingBalance > 0 /\ Move(c, "lookup")
      /\ req' = [req EXCEPT ![c] =
            [op |-> "cancel", key |-> <<"expire", j.key>>, amt |-> Min({j.amt, PendingBalance})]]
      /\ UNCHANGED <<log, pendingLocks, verified>>
    BY <1>1, Zenon DEF ExpirePendingOlderThan
<1>3. j.amt \in Nat
    <2>1. PICK S : log \in Seq(S)
        BY Zenon DEF PendingInv, PendingShape
    <2>2. DOMAIN log \in SUBSET Nat
        BY <2>1
    <2>3. Stale \in SUBSET Nat /\ Stale \subseteq DOMAIN log
        BY <2>2, Zenon DEF Stale
    <2>4. Min(Stale) \in DOMAIN log
        BY <1>2, <2>3, SmallestOf, Zenon
    <2>. QED  BY <1>1, <2>4, Zenon DEF PendingInv, PendingShape, Posted
<1>4. Min({j.amt, PendingBalance}) \in Nat
    <2>1. PendingBalance \in Int
        BY PendingBalanceInt, Zenon DEF PendingInv
    <2>2. PendingBalance \in Nat /\ j.amt \in Int
        BY <1>2, <1>3, <2>1
    <2>3. Min({j.amt, PendingBalance}) \in {j.amt, PendingBalance}
        BY <2>1, <2>2, LesserOf, Zenon
    <2>. QED  BY <1>3, <2>2, <2>3, Zenon
<1>5. PICK a : a = Min({j.amt, PendingBalance})
    BY Zenon
<1>6. PICK r : r = [op |-> "cancel", key |-> <<"expire", j.key>>, amt |-> a]
    BY Zenon
<1>7. r.amt \in Nat /\ req' = [req EXCEPT ![c] = r]
    BY <1>2, <1>4, <1>5, <1>6, Zenon
<1>. QED  BY <1>2, <1>7, BeginsInv, Zenon

\* The authorized figure is read before any lock.
LEMMA ReadVerifiedInv ==
    ASSUME PendingInv, NEW c \in Depositors, ReadVerified(c) PROVE PendingInv'
<1>1. /\ at[c] = "verify" /\ at' = [at EXCEPT ![c] = "idem"]
      /\ verified' = [verified EXCEPT ![c] = PendingBalance]
      /\ UNCHANGED <<log, keyLock, pairLock, req>>
    BY Zenon DEF ReadVerified, Move, pendingLocks
<1>2. PendingBalance \in Int
    BY PendingBalanceInt, Zenon DEF PendingInv
<1>3. /\ at' = [d \in Depositors |-> at'[d]] /\ at'[c] = "idem"
      /\ verified' \in [Depositors -> Int]
      /\ \A d \in Depositors \ {c} : at'[d] = at[d]
    BY <1>1, <1>2, Zenon DEF PendingInv, PendingShape
<1>4. PendingShape'
    BY <1>1, <1>3, NothingPosted, Zenon DEF PendingInv, PendingShape
<1>5. OnlyCaller(c)
    BY <1>1, <1>3, Zenon DEF OnlyCaller
<1>6. KeyLocksApart'
    BY <1>1, Zenon DEF PendingInv, KeyLocksApart
<1>7. CallerKnows(c)'
    BY <1>1, <1>3, Zenon DEF PendingInv, CallerKnows
<1>. QED  BY <1>1, <1>4, <1>5, <1>6, <1>7, CallersKept, Zenon

\* What does not touch calls, locks and journals keeps the invariant.
LEMMA PendingUntouched ==
    ASSUME PendingInv, UNCHANGED <<log, keyLock, pairLock, at, req, verified>>
    PROVE  PendingInv'
<1>1. Posted' = Posted /\ PendingBalance' = PendingBalance
    BY NothingPosted, Zenon
<1>. QED  BY <1>1, Zenon DEF PendingInv, PendingShape, KeyLocksApart, NeverOverdrawn, CallerKnows, ByKey

\* Nothing is posted or locked at first.
LEMMA PendingInitial == PendingInit => PendingInv
<1>. SUFFICES ASSUME PendingInit PROVE PendingInv
    BY Zenon
<1>1. log = <<>> /\ Posted = {} /\ IsFiniteSet(Posted)
    <2>1. log = <<>>
        BY Zenon DEF PendingInit
    <2>2. Posted = {}
        BY <2>1 DEF Posted
    <2>. QED  BY <2>1, <2>2, FS_EmptySet, Zenon
<1>2. PendingBalance = 0
    BY <1>1, SumUnfold, Zenon DEF PendingBalance
<1>3. \E S : log \in Seq(S)
    <2>1. <<>> \in Seq(Nat)
        OBVIOUS
    <2>. QED  BY <1>1, <2>1, Zenon
<1>4. verified \in [Depositors -> Int]
    BY DEF PendingInit
<1>5. PendingShape
    BY <1>1, <1>3, <1>4, Zenon DEF PendingInit, PendingShape
<1>6. \A c \in Depositors : CallerKnows(c)
    BY Zenon DEF PendingInit, CallerKnows
<1>7. NeverOverdrawn
    BY <1>2 DEF NeverOverdrawn
<1>. QED  BY <1>5, <1>6, <1>7, Zenon DEF PendingInv, KeyLocksApart, PendingInit

\* The inductive invariant of pending deposits.
THEOREM PendingInvariant == PendingSpec => []PendingInv
<1>1. PendingInv /\ [PendingNext]_pendingVars => PendingInv'
    <2>. SUFFICES ASSUME PendingInv, [PendingNext]_pendingVars PROVE PendingInv'
        BY Zenon
    <2>1. ASSUME NEW c \in Depositors, AddPending(c) \/ ConfirmPending(c) \/ CancelPending(c)
          PROVE  PendingInv'
        BY <2>1, RequestInv, Zenon DEF AddPending, ConfirmPending, CancelPending
    <2>2. ASSUME NEW c \in Depositors, PendingStep(c) PROVE PendingInv'
        BY <2>2, FirstLookInv, ReadVerifiedInv, LockKeyInv, LockPairsInv, RecheckInv, GateInv, PostInv,
           Zenon DEF PendingStep
    <2>3. ASSUME NEW c \in Depositors, Abort(c) PROVE PendingInv'
        BY <2>3, FinishInv, Zenon DEF Abort
    <2>4. ASSUME NEW c \in Depositors, ExpirePendingOlderThan(c) PROVE PendingInv'
        BY <2>4, ExpireInv, Zenon
    <2>5. ASSUME Age PROVE PendingInv'
        BY <2>5, PendingUntouched, Zenon DEF Age, pendingLocks
    <2>6. ASSUME UNCHANGED pendingVars PROVE PendingInv'
        BY <2>6, PendingUntouched, Zenon DEF pendingVars, pendingLocks
    <2>. QED  BY <2>1, <2>2, <2>3, <2>4, <2>5, <2>6, Zenon DEF PendingNext
<1>. QED  BY <1>1, PendingInitial, PTL DEF PendingSpec

\* The pending account is never overdrawn: whatever confirms, cancels, retries, timeout
\* sweeps and dying transactions interleave, and however stale the authorized figure is,
\* no more is taken out of pending than was put in (checkPendingBalanceAndPost).
THEOREM PendingNeverOverdrawn == PendingSpec => []NeverOverdrawn
<1>1. PendingInv => NeverOverdrawn
    BY Zenon DEF PendingInv
<1>. QED  BY <1>1, PendingInvariant, PTL
===============================================================================
