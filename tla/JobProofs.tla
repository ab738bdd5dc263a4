------------------------------ MODULE JobProofs ------------------------------
(***************************************************************************)
(* The background jobs.                                                    *)
(*                                                                         *)
(* The chain of attestations has no gap and no fork, a batch covers what   *)
(* it was signed over and the anchor agrees with the database, for every   *)
(* number of replicas, journals and faults.                                *)
(*                                                                         *)
(* A locked job runs on one replica at a time and reports every tick once, *)
(* for every number of replicas, jobs and mishaps.                         *)
(*                                                                         *)
(* Delivery implements Outbox, for any events, receivers, workers, limits  *)
(* and either kind of dispatcher.                                          *)
(***************************************************************************)
EXTENDS Attestation, Worker, Delivery, FiniteSetTheorems, WellFoundedInduction, TLAPS

------------------------------------------------------------------------------
(* Attestation.                                                            *)

Fields == {"at", "from", "todo", "latest", "prev", "batch", "row", "verdict"}

\* The root the attestation after seq s goes on from, in table R.
RootAt(R, s) == IF s = 0 THEN Genesis ELSE R[s].root

\* What a page of the catch-up may hold.
Listed(R) == {[seq |-> s, row |-> R[s]] : s \in DOMAIN R}

\* A row signed for seq s, to go on from the root prev.
Signed(row, s, prev) ==
    /\ row.prev = prev
    /\ row.count = Len(row.digest)
    /\ row.signature = AttestationRootHash(s, row.prev, row.digest, row.merkle,
                                           row.verdicts, row.count)

\* What a replica has in hand: the end of the chain it read may be overtaken,
\* but it was an attestation and still is one; what it publishes is committed.
InHand(a, R) ==
    /\ DOMAIN a = Fields
    /\ a.at = "list" => a.from \in Nat
    /\ a.at \in {"entries", "sign", "insert"} =>
          a.latest \in DOMAIN R \cup {0} /\ a.prev = RootAt(R, a.latest)
    /\ a.at = "insert" => Signed(a.row, a.latest + 1, a.prev) /\ a.row.digest = a.batch
    /\ a.at = "publish" => a.latest \in DOMAIN R /\ a.row = R[a.latest]
    /\ a.at = "catchup" => a.todo \in Seq(Listed(R)) /\ a.todo # <<>>

\* The chain has no gap.
Gapless == \E n \in Nat : DOMAIN rows = 1..n

\* Coverage names attestations that exist.
CoverageNamed == \A id \in DOMAIN covered : covered[id].seq \in DOMAIN rows

AttInv ==
    /\ Gapless
    /\ CoverageNamed
    /\ observed \in Nat
    /\ ChainSound
    /\ DOMAIN att = Replicas
    /\ \A r \in Replicas : InHand(att[r], rows)

---------------------------------------------------------------------------
\* Largest elements

\* A bounded set of naturals has a largest element, and Max is it.
LEMMA Largest ==
    ASSUME NEW n \in Nat, NEW S, S \subseteq 0..n, S # {}
    PROVE  Max(S) \in S /\ \A y \in S : y <= Max(S)
<1> DEFINE B == {m \in Nat : \A y \in S : y <= m}
<1>1. n \in B
    OBVIOUS
<1>2. \E m \in B : \A k \in B : ~(<<k, m>> \in OpToRel(<, Nat))
    BY <1>1, NatLessThanWellFounded, WFMin, Zenon
<1>3. PICK m \in B : \A k \in B : ~(k < m)
    BY <1>2, Zenon DEF OpToRel
<1>4. m \in S
    <2>1. SUFFICES ASSUME m \notin S PROVE FALSE
        BY Zenon
    <2>2. CASE m = 0
        <3>1. PICK y \in S : TRUE
            BY Zenon
        <3>2. y \in 0..n /\ y <= 0
            BY <2>2, <3>1, Zenon
        <3>. QED  BY <2>1, <2>2, <3>1, <3>2
    <2>3. CASE m # 0
        <3>1. m - 1 \in B
            BY <2>1, <2>3
        <3>. QED  BY <3>1, <1>3
    <2>. QED  BY <2>2, <2>3, Zenon
<1>5. \E x \in S : \A y \in S : x >= y
    BY <1>4, Zenon
<1>6. Max(S) \in S /\ \A y \in S : Max(S) >= y
    BY <1>5, Zenon DEF Max
<1>. QED  BY <1>6, Zenon

\* The larger of two.
LEMMA LargerOf ==
    ASSUME NEW a \in Nat, NEW b \in Nat
    PROVE  Max({a, b}) \in {a, b}
<1>1. \E x \in {a, b} : \A y \in {a, b} : x >= y
    OBVIOUS
<1>. QED  BY <1>1, Zenon DEF Max

\* The smaller of two.
LEMMA SmallerOf ==
    ASSUME NEW a \in Nat, NEW b \in Nat
    PROVE  Min({a, b}) \in {a, b} /\ Min({a, b}) <= b
<1>1. \E x \in {a, b} : \A y \in {a, b} : x <= y
    OBVIOUS
<1>2. Min({a, b}) \in {a, b} /\ \A y \in {a, b} : Min({a, b}) <= y
    BY <1>1, Zenon DEF Min
<1>. QED  BY <1>2, Zenon

\* The end of a chain without gaps is its length.
LEMMA LatestIs ==
    ASSUME NEW n \in Nat, DOMAIN rows = 1..n
    PROVE  Latest = n
<1> DEFINE S == DOMAIN rows \cup {0}
<1>1. S \subseteq 0..n /\ n \in S /\ S # {} /\ S \subseteq Nat
    OBVIOUS
<1>2. Max(S) \in S /\ \A y \in S : y <= Max(S)
    BY <1>1, Largest, Zenon
<1>3. Latest = Max(S)
    BY Zenon DEF Latest
<1> HIDE DEF S
<1>4. Max(S) \in 0..n /\ n <= Max(S)
    BY <1>1, <1>2, Zenon
<1>. QED  BY <1>3, <1>4

\* The head of the anchor is the largest of its objects, if it has one.
LEMMA HeadIs ==
    ASSUME NEW n \in Nat, DOMAIN objects \subseteq 1..n
    PROVE  /\ AnchorHead \in DOMAIN objects \cup {0}
           /\ AnchorHead \in 0..n
           /\ \A s \in DOMAIN objects : s <= AnchorHead
<1> DEFINE S == DOMAIN objects \cup {0}
<1>1. S \subseteq 0..n /\ S # {}
    OBVIOUS
<1>2. Max(S) \in S /\ \A y \in S : y <= Max(S)
    BY <1>1, Largest, Zenon
<1>. QED  BY <1>1, <1>2, Zenon DEF AnchorHead

\* The same after a step.
LEMMA HeadIsPrimed ==
    ASSUME NEW n \in Nat, DOMAIN objects' \subseteq 1..n
    PROVE  AnchorHead' \in 0..n /\ \A s \in DOMAIN objects' : s <= AnchorHead'
<1> DEFINE S == DOMAIN objects' \cup {0}
<1>1. S \subseteq 0..n /\ S # {}
    OBVIOUS
<1>2. Max(S) \in S /\ \A y \in S : y <= Max(S)
    BY <1>1, Largest, Zenon
<1>. QED  BY <1>1, <1>2, Zenon DEF AnchorHead

---------------------------------------------------------------------------
\* ListAttestationsFrom

\* The i-th smallest of an interval.
LEMMA AscendingInterval ==
    ASSUME NEW a \in Nat, NEW b \in Nat, NEW i \in 1..Cardinality(a..b)
    PROVE  Ascending(a..b)[i] \in a..b
<1>1. Cardinality(a..b) = IF a > b THEN 0 ELSE b - a + 1
    BY FS_Interval
<1>2. a <= b /\ i \in 1..(b - a + 1)
    BY <1>1
<1> DEFINE x == a + i - 1
<1>3. x \in a..b
    BY <1>2
<1>4. {y \in a..b : y < x} = a..(x - 1)
    BY <1>2
<1>5. Cardinality(a..(x - 1)) = i - 1
    <2>1. Cardinality(a..(x - 1)) = IF a > x - 1 THEN 0 ELSE (x - 1) - a + 1
        BY <1>2, FS_Interval
    <2>. QED  BY <2>1, <1>2
<1>6. Cardinality({y \in a..b : y < x}) = i - 1
    BY <1>4, <1>5, Zenon
<1> HIDE DEF x
<1>7. (CHOOSE z \in a..b : Cardinality({y \in a..b : y < z}) = i - 1) \in a..b
    BY <1>3, <1>6, Zenon
<1>. QED  BY <1>7, Zenon DEF Ascending

\* A page of the chain holds committed attestations.
LEMMA PageListed ==
    ASSUME NEW n \in Nat, DOMAIN rows = 1..n, NEW from \in Nat, NEW limit \in Nat
    PROVE  ListAttestationsFrom(from + 1, limit) \in Seq(Listed(rows))
<1> DEFINE S == {s \in DOMAIN rows : s >= from + 1}
           asc == Ascending(S)
           k == Min({limit, Len(asc)})
<1>1. S = (from + 1)..n
    OBVIOUS
<1>2. Cardinality(S) \in Nat
    <2>1. Cardinality((from + 1)..n) = IF from + 1 > n THEN 0 ELSE n - (from + 1) + 1
        BY FS_Interval
    <2>2. Cardinality((from + 1)..n) \in Nat
        BY <2>1
    <2>. QED  BY <1>1, <2>2, Zenon
<1>3. Len(asc) = Cardinality(S)
    BY <1>2 DEF Ascending
<1>4. k \in Nat /\ k <= Cardinality(S)
    BY <1>2, <1>3, SmallerOf, Zenon
<1>5. \A i \in 1..k : asc[i] \in DOMAIN rows
    <2>1. \A i \in 1..Cardinality((from + 1)..n) : Ascending((from + 1)..n)[i] \in (from + 1)..n
        BY AscendingInterval
    <2>2. \A i \in 1..Cardinality(S) : asc[i] \in S
        BY <2>1, <1>1, Zenon
    <2>3. S \subseteq DOMAIN rows
        BY Zenon
    <2>4. 1..k \subseteq 1..Cardinality(S)
        <3>1. \A a, b \in Nat : a <= b => 1..a \subseteq 1..b
            OBVIOUS
        <3>. QED  BY <1>2, <1>4, <3>1, Zenon
    <2>. QED  BY <2>2, <2>3, <2>4, Zenon
<1> HIDE DEF asc, k, S
<1>6. \A i \in 1..k : [seq |-> asc[i], row |-> rows[asc[i]]] \in Listed(rows)
    BY <1>5, Zenon DEF Listed
<1>7. [i \in 1..k |-> [seq |-> asc[i], row |-> rows[asc[i]]]] \in Seq(Listed(rows))
    BY <1>4, <1>6
<1>. QED  BY <1>7, Zenon DEF ListAttestationsFrom, asc, k, S

---------------------------------------------------------------------------
\* Steps that add no attestation

\* What a replica has in hand stays good while the chain grows.
LEMMA InHandKept ==
    ASSUME NEW a, NEW R, NEW Q, DOMAIN R \subseteq DOMAIN Q,
           \A s \in DOMAIN R : Q[s] = R[s], InHand(a, R)
    PROVE  InHand(a, Q)
<1>1. a.latest \in DOMAIN R \cup {0} =>
         a.latest \in DOMAIN Q \cup {0} /\ RootAt(Q, a.latest) = RootAt(R, a.latest)
    BY Zenon DEF RootAt
<1>2. Listed(R) \subseteq Listed(Q)
    BY Zenon DEF Listed
<1>3. a.todo \in Seq(Listed(R)) => a.todo \in Seq(Listed(Q))
    BY <1>2
<1>. QED  BY <1>1, <1>3, Zenon DEF InHand

\* A replica with nothing in hand.
LEMMA IdleInHand == ASSUME NEW R PROVE InHand(Idle, R)
<1>1. DOMAIN Idle = Fields /\ Idle.at = "idle"
    BY Zenon DEF Idle, Fields
<1>. QED  BY <1>1, Zenon DEF InHand

\* The properties of the chain look at the tables alone.
LEMMA ChainKept ==
    ASSUME AttInv, UNCHANGED <<rows, covered>>
    PROVE  Gapless' /\ CoverageNamed' /\ ChainLinked' /\ CoverageMatchesBatch'
<1>1. rows' = rows /\ covered' = covered
    BY Zenon
<1>2. Gapless /\ CoverageNamed /\ ChainLinked /\ CoverageMatchesBatch
    BY Zenon DEF AttInv, ChainSound
<1>3. Gapless' /\ CoverageNamed'
    BY <1>1, <1>2, Zenon DEF Gapless, CoverageNamed
<1>4. ChainLinked'
    BY <1>1, <1>2, Zenon DEF ChainLinked
<1>5. CoverageMatchesBatch'
    <2>1. ASSUME NEW s \in DOMAIN rows
          PROVE  /\ IdsOf(rows[s].digest) = {id \in DOMAIN covered : covered[id].seq = s}
                 /\ Len(rows[s].digest) = rows[s].count
        BY <1>2, Zenon DEF CoverageMatchesBatch
    <2>. QED  BY <1>1, <2>1 DEF CoverageMatchesBatch, IdsOf
<1>. QED  BY <1>3, <1>4, <1>5, Zenon

\* One replica moves on; the tables of the chain are left alone.
LEMMA OneReplica ==
    ASSUME AttInv, NEW r \in Replicas, UNCHANGED <<rows, covered>>,
           AnchorAgrees', observed' \in Nat,
           DOMAIN att' = Replicas, \A q \in Replicas \ {r} : att'[q] = att[q],
           InHand(att'[r], rows)
    PROVE  AttInv'
<1>1. rows' = rows
    BY Zenon
<1>2. \A q \in Replicas : InHand(att'[q], rows')
    BY <1>1, Zenon DEF AttInv
<1>. QED  BY <1>2, ChainKept, Zenon DEF AttInv, ChainSound

\* Without a step of the anchor or the observations they go on agreeing.
LEMMA AnchorKept ==
    ASSUME AttInv, UNCHANGED <<rows, objects, observed>>
    PROVE  AnchorAgrees' /\ observed' \in Nat
<1>1. rows' = rows /\ objects' = objects /\ observed' = observed
    BY Zenon
<1>2. AnchorAgrees /\ observed \in Nat
    BY Zenon DEF AttInv, ChainSound
<1>. QED  BY <1>1, <1>2, Zenon DEF AnchorAgrees, AnchorHead

\* A replica gives up or dies.
LEMMA GivesUp ==
    ASSUME AttInv, NEW r \in Replicas, att' = [att EXCEPT ![r] = Idle],
           UNCHANGED <<rows, covered, objects, observed>>
    PROVE  AttInv'
<1>1. DOMAIN att' = Replicas /\ att'[r] = Idle /\ \A q \in Replicas \ {r} : att'[q] = att[q]
    BY Zenon DEF AttInv
<1>2. InHand(att'[r], rows)
    BY <1>1, IdleInHand, Zenon
<1>3. AnchorAgrees' /\ observed' \in Nat
    BY AnchorKept, Zenon
<1>4. UNCHANGED <<rows, covered>>
    BY Zenon
<1>. QED  BY <1>1, <1>2, <1>3, <1>4, OneReplica, Zenon

\* PostJournal adds entries and nothing else.
LEMMA PostJournalInv == ASSUME AttInv, NEW j \in Journals, PostJournal(j) PROVE AttInv'
<1>1. UNCHANGED <<rows, covered, objects, observed>> /\ att' = att
    BY Zenon DEF PostJournal
<1>2. rows' = rows
    BY <1>1, Zenon
<1>3. UNCHANGED <<rows, covered>> /\ UNCHANGED <<rows, objects, observed>>
    BY <1>1, Zenon
<1>4. \A q \in Replicas : InHand(att'[q], rows')
    BY <1>1, <1>2, Zenon DEF AttInv
<1>5. DOMAIN att' = Replicas
    BY <1>1, Zenon DEF AttInv
<1>. QED  BY <1>3, <1>4, <1>5, ChainKept, AnchorKept, Zenon DEF AttInv, ChainSound

\* Start, HeadUnavailable: only the place changes.
LEMMA MovesOn ==
    ASSUME AttInv, NEW r \in Replicas, NEW to \in {"head", "latest"}, Go(r, to),
           UNCHANGED <<dbVars, objects>>
    PROVE  AttInv'
<1>1. DOMAIN att = Replicas /\ DOMAIN att[r] = Fields
    BY Zenon DEF AttInv, InHand
<1>2. /\ DOMAIN att' = Replicas /\ DOMAIN att'[r] = Fields /\ att'[r].at = to
      /\ \A q \in Replicas \ {r} : att'[q] = att[q]
    BY <1>1, Zenon DEF Go, Fields
<1>3. InHand(att'[r], rows)
    BY <1>2, Zenon DEF InHand
<1>4. UNCHANGED <<rows, covered>> /\ UNCHANGED <<rows, objects, observed>>
    BY Zenon DEF dbVars
<1>. QED  BY <1>2, <1>3, <1>4, AnchorKept, OneReplica, Zenon

\* RecordAnchorObservation of what the anchor holds.
LEMMA ObservedHeld ==
    ASSUME observed \in Nat, NEW seq \in Nat, NEW head \in Nat,
           observed <= head, seq <= head, RecordAnchorObservation(seq)
    PROVE  observed' \in Nat /\ observed' <= head
<1>1. observed' = observed \/ observed' = Max({observed, seq})
    BY Zenon DEF RecordAnchorObservation
<1>2. Max({observed, seq}) \in {observed, seq}
    BY LargerOf, Zenon
<1>. QED  BY <1>1, <1>2, Zenon

\* ReadHead: the head is an attestation, and is remembered as what it is.
LEMMA ReadHeadInv == ASSUME AttInv, NEW r \in Replicas, ReadHead(r) PROVE AttInv'
<1>1. PICK n \in Nat : DOMAIN rows = 1..n
    BY Zenon DEF AttInv, Gapless
<1>2. AnchorAgrees /\ observed \in Nat
    BY Zenon DEF AttInv, ChainSound
<1>3. DOMAIN objects \subseteq 1..n /\ observed <= AnchorHead
    BY <1>1, <1>2, Zenon DEF AnchorAgrees
<1>4. AnchorHead \in 0..n
    BY <1>3, HeadIs, Zenon
<1>5. AnchorHead \in Nat /\ AnchorHead <= AnchorHead
    BY <1>4
<1>6. observed' \in Nat /\ observed' <= AnchorHead
    <2>1. CASE RecordAnchorObservation(AnchorHead)
        BY <1>2, <1>3, <1>5, <2>1, ObservedHeld, Zenon
    <2>2. CASE observed' = observed
        BY <1>2, <1>3, <2>2, Zenon
    <2>. QED  BY <2>1, <2>2, Zenon DEF ReadHead
<1>7. objects' = objects /\ rows' = rows /\ UNCHANGED <<rows, covered>>
    BY Zenon DEF ReadHead
<1>8. AnchorHead' = AnchorHead
    BY <1>7, Zenon DEF AnchorHead
<1>9. AnchorAgrees'
    BY <1>2, <1>6, <1>7, <1>8, Zenon DEF AnchorAgrees
<1>10. DOMAIN att = Replicas /\ DOMAIN att[r] = Fields
    BY Zenon DEF AttInv, InHand
<1>11. att' = [att EXCEPT ![r].at = "list", ![r].from = AnchorHead]
    BY Zenon DEF ReadHead
<1>12. PICK h : h = AnchorHead
    BY Zenon
<1>13. /\ DOMAIN att' = Replicas /\ DOMAIN att'[r] = Fields
       /\ att'[r].at = "list" /\ att'[r].from = h
       /\ \A q \in Replicas \ {r} : att'[q] = att[q]
    BY <1>10, <1>11, <1>12, Zenon DEF Fields
<1>14. InHand(att'[r], rows)
    BY <1>5, <1>12, <1>13, Zenon DEF InHand
<1>. QED  BY <1>6, <1>7, <1>9, <1>13, <1>14, OneReplica, Zenon

\* ListMissing: a page of the gap.
LEMMA ListMissingInv == ASSUME AttInv, NEW r \in Replicas, ListMissing(r) PROVE AttInv'
<1>1. PICK n \in Nat : DOMAIN rows = 1..n
    BY Zenon DEF AttInv, Gapless
<1>2. DOMAIN att = Replicas /\ DOMAIN att[r] = Fields /\ att[r].from \in Nat
    BY Zenon DEF AttInv, InHand, ListMissing, At
<1>3. PICK gap : gap = IF Latest <= att[r].from THEN <<>>
                       ELSE ListAttestationsFrom(att[r].from + 1, CatchUpPage)
    BY Zenon
<1>4. gap \in Seq(Listed(rows))
    <2>1. CatchUpPage \in Nat
        BY AttestationAssumption, Zenon
    <2>2. ListAttestationsFrom(att[r].from + 1, CatchUpPage) \in Seq(Listed(rows))
        BY <1>1, <1>2, <2>1, PageListed, Zenon
    <2>3. CASE gap = <<>>
        BY <2>3
    <2>4. CASE gap = ListAttestationsFrom(att[r].from + 1, CatchUpPage)
        BY <2>2, <2>4, Zenon
    <2>. QED  BY <1>3, <2>3, <2>4, Zenon
<1>5. att' = [att EXCEPT ![r].at = IF gap = <<>> THEN "latest" ELSE "catchup", ![r].todo = gap]
    BY <1>3, Zenon DEF ListMissing
<1>6. /\ DOMAIN att' = Replicas /\ DOMAIN att'[r] = Fields
      /\ att'[r].at = (IF gap = <<>> THEN "latest" ELSE "catchup") /\ att'[r].todo = gap
      /\ \A q \in Replicas \ {r} : att'[q] = att[q]
    BY <1>2, <1>5, Zenon DEF Fields
<1>7. InHand(att'[r], rows)
    BY <1>4, <1>6, Zenon DEF InHand
<1>8. UNCHANGED <<rows, covered>> /\ UNCHANGED <<rows, objects, observed>>
    BY Zenon DEF ListMissing, dbVars
<1>. QED  BY <1>6, <1>7, <1>8, AnchorKept, OneReplica, Zenon

\* A root is published only of a committed attestation, and observed only then.
LEMMA PublishSound ==
    ASSUME AttInv, NEW s \in DOMAIN rows, NEW good \in BOOLEAN,
           Publish(s, rows[s].root, good), rows' = rows
    PROVE  AnchorAgrees' /\ observed' \in Nat
<1>1. PICK n \in Nat : DOMAIN rows = 1..n
    BY Zenon DEF AttInv, Gapless
<1>2. AnchorAgrees /\ observed \in Nat
    BY Zenon DEF AttInv, ChainSound
<1>3. DOMAIN objects \subseteq 1..n /\ observed <= AnchorHead
    BY <1>1, <1>2, Zenon DEF AnchorAgrees
<1>4. CASE objects' = objects /\ observed' = observed
    BY <1>2, <1>4, Zenon DEF AnchorAgrees, AnchorHead
<1>5. CASE Put(s, rows[s].root)
    <2>1. /\ DOMAIN objects' = DOMAIN objects \cup {s}
          /\ \A q \in DOMAIN objects' : q \in DOMAIN rows /\ objects'[q] = rows[q].root
        <3>1. DOMAIN objects' = DOMAIN objects \cup {s}
            BY <1>5, Zenon DEF Put, Over
        <3>2. ASSUME NEW q \in DOMAIN objects' PROVE q \in DOMAIN rows /\ objects'[q] = rows[q].root
            <4>1. CASE q \in DOMAIN objects
                <5>1. objects'[q] = objects[q]
                    BY <1>5, <4>1, Zenon DEF Put, Over
                <5>. QED  BY <4>1, <5>1, <1>2, Zenon DEF AnchorAgrees
            <4>2. CASE q \notin DOMAIN objects
                <5>1. q = s
                    BY <3>1, <4>2, Zenon
                <5>2. objects'[q] = rows[s].root
                    BY <1>5, <4>2, <5>1, Zenon DEF Put, Over
                <5>. QED  BY <5>1, <5>2, Zenon
            <4>. QED  BY <4>1, <4>2, Zenon
        <3>. QED  BY <3>1, <3>2, Zenon
    <2>2. DOMAIN objects' \subseteq 1..n
        BY <1>1, <2>1, Zenon
    <2>3. AnchorHead \in DOMAIN objects \cup {0} /\ AnchorHead \in 0..n
        BY <1>3, HeadIs, Zenon
    <2>4. AnchorHead' \in 0..n /\ \A q \in DOMAIN objects' : q <= AnchorHead'
        BY <2>2, HeadIsPrimed, Zenon
    <2>5. AnchorHead' \in Nat /\ observed <= AnchorHead' /\ s <= AnchorHead' /\ s \in Nat
        BY <1>1, <1>2, <1>3, <2>1, <2>3, <2>4
    <2>6. observed' \in Nat /\ observed' <= AnchorHead'
        <3>1. CASE RecordAnchorObservation(s)
            BY <1>2, <2>5, <3>1, ObservedHeld, Zenon
        <3>2. CASE observed' = observed
            BY <1>2, <2>5, <3>2, Zenon
        <3>. QED  BY <1>4, <3>1, <3>2, Zenon DEF Publish
    <2>. QED  BY <2>1, <2>6, Zenon DEF AnchorAgrees
<1>. QED  BY <1>4, <1>5, Zenon DEF Publish

\* CatchUp: the next of the page.
LEMMA CatchUpInv == ASSUME AttInv, NEW r \in Replicas, CatchUp(r) PROVE AttInv'
<1>1. /\ DOMAIN att = Replicas /\ DOMAIN att[r] = Fields
      /\ att[r].todo \in Seq(Listed(rows)) /\ att[r].todo # <<>>
    BY Zenon DEF AttInv, InHand, CatchUp, At
<1>2. PICK good \in BOOLEAN :
         /\ Publish(Head(att[r].todo).seq, Head(att[r].todo).row.root, good)
         /\ LET rest == IF good THEN Tail(att[r].todo) ELSE <<>>
            IN  att' = [att EXCEPT ![r].todo = rest,
                                   ![r].at = IF rest = <<>> THEN "latest" ELSE "catchup"]
    BY Zenon DEF CatchUp
<1>3. Head(att[r].todo) \in Listed(rows) /\ Tail(att[r].todo) \in Seq(Listed(rows))
    BY <1>1
<1>4. PICK s \in DOMAIN rows : Head(att[r].todo) = [seq |-> s, row |-> rows[s]]
    BY <1>3, Zenon DEF Listed
<1>5. Head(att[r].todo).seq = s /\ Head(att[r].todo).row = rows[s]
    BY <1>4
<1>6. Publish(s, rows[s].root, good)
    BY <1>2, <1>5, Zenon
<1>7. rows' = rows /\ UNCHANGED <<rows, covered>>
    BY Zenon DEF CatchUp
<1>8. AnchorAgrees' /\ observed' \in Nat
    BY <1>6, <1>7, PublishSound, Zenon
<1>9. PICK rest : rest = IF good THEN Tail(att[r].todo) ELSE <<>>
    BY Zenon
<1>10. rest \in Seq(Listed(rows))
    <2>1. CASE good
        BY <2>1, <1>3, <1>9, Zenon
    <2>2. CASE ~good
        BY <2>2, <1>9
    <2>. QED  BY <2>1, <2>2, Zenon
<1>11. att' = [att EXCEPT ![r].todo = rest, ![r].at = IF rest = <<>> THEN "latest" ELSE "catchup"]
    BY <1>2, <1>9, Zenon
<1>12. /\ DOMAIN att' = Replicas /\ DOMAIN att'[r] = Fields
       /\ att'[r].at = (IF rest = <<>> THEN "latest" ELSE "catchup") /\ att'[r].todo = rest
       /\ \A q \in Replicas \ {r} : att'[q] = att[q]
    BY <1>1, <1>11, Zenon DEF Fields
<1>13. InHand(att'[r], rows)
    BY <1>10, <1>12, Zenon DEF InHand
<1>. QED  BY <1>7, <1>8, <1>12, <1>13, OneReplica, Zenon

\* ReadLatest: the end of the chain and its root.
LEMMA ReadLatestInv == ASSUME AttInv, NEW r \in Replicas, ReadLatest(r) PROVE AttInv'
<1>1. PICK n \in Nat : DOMAIN rows = 1..n
    BY Zenon DEF AttInv, Gapless
<1>2. DOMAIN att = Replicas /\ DOMAIN att[r] = Fields
    BY Zenon DEF AttInv, InHand
<1>3. Latest = n /\ Latest \in DOMAIN rows \cup {0}
    <2>1. Latest = n
        BY <1>1, LatestIs, Zenon
    <2>. QED  BY <1>1, <2>1
<1>4. PICK to, last, prev : /\ to = IF Latest < MaxSeq THEN "entries" ELSE "idle"
                            /\ last = Latest /\ prev = RootAt(rows, Latest)
    BY Zenon
<1>5. att' = [att EXCEPT ![r].at = to, ![r].latest = last, ![r].prev = prev]
    BY <1>4, Zenon DEF ReadLatest, RootAt
<1>6. /\ DOMAIN att' = Replicas /\ DOMAIN att'[r] = Fields
      /\ att'[r].at = to /\ att'[r].latest = last /\ att'[r].prev = prev
      /\ \A q \in Replicas \ {r} : att'[q] = att[q]
    BY <1>2, <1>5, Zenon DEF Fields
<1>7. to \in {"entries", "idle"}
    BY <1>4, Zenon
<1>8. last \in DOMAIN rows \cup {0} /\ prev = RootAt(rows, last)
    BY <1>3, <1>4, Zenon
<1>9. InHand(att'[r], rows)
    BY <1>6, <1>7, <1>8, Zenon DEF InHand
<1>10. UNCHANGED <<rows, covered>> /\ UNCHANGED <<rows, objects, observed>>
    BY Zenon DEF ReadLatest, dbVars
<1>. QED  BY <1>6, <1>9, <1>10, AnchorKept, OneReplica, Zenon

\* ReadEntries: a batch, whatever is in it.
LEMMA ReadEntriesInv == ASSUME AttInv, NEW r \in Replicas, ReadEntries(r) PROVE AttInv'
<1>1. /\ DOMAIN att = Replicas /\ DOMAIN att[r] = Fields
      /\ att[r].latest \in DOMAIN rows \cup {0} /\ att[r].prev = RootAt(rows, att[r].latest)
    BY Zenon DEF AttInv, InHand, ReadEntries, At
<1>2. PICK es : es = ListUncoveredEntries(BatchSize)
    BY Zenon
<1>3. att' = [att EXCEPT ![r].at = "sign", ![r].batch = es]
    BY <1>2, Zenon DEF ReadEntries
<1>4. /\ DOMAIN att' = Replicas /\ DOMAIN att'[r] = Fields /\ att'[r].at = "sign"
      /\ att'[r].latest = att[r].latest /\ att'[r].prev = att[r].prev
      /\ \A q \in Replicas \ {r} : att'[q] = att[q]
    BY <1>1, <1>3, Zenon DEF Fields
<1>5. InHand(att'[r], rows)
    BY <1>1, <1>4, Zenon DEF InHand
<1>6. UNCHANGED <<rows, covered>> /\ UNCHANGED <<rows, objects, observed>>
    BY Zenon DEF ReadEntries, dbVars
<1>. QED  BY <1>4, <1>5, <1>6, AnchorKept, OneReplica, Zenon

\* Sign: the row goes on from the root read before.
LEMMA SignInv == ASSUME AttInv, NEW r \in Replicas, Sign(r) PROVE AttInv'
<1>1. /\ DOMAIN att = Replicas /\ DOMAIN att[r] = Fields
      /\ att[r].latest \in DOMAIN rows \cup {0} /\ att[r].prev = RootAt(rows, att[r].latest)
    BY Zenon DEF AttInv, InHand, Sign, At
<1>2. PICK es, verdict, vd, root :
         /\ es = att[r].batch
         /\ root = AttestationRootHash(att[r].latest + 1, att[r].prev, es, es, vd, Len(es))
         /\ att' = [att EXCEPT ![r].at = "insert", ![r].verdict = verdict,
                      ![r].row = [count |-> Len(es), digest |-> es, merkle |-> es,
                                  verdicts |-> vd, prev |-> att[r].prev, root |-> root,
                                  signature |-> root]]
    BY Zenon DEF Sign, CanonicalBatchDigest, MerkleRoot
<1>3. PICK row : row = [count |-> Len(es), digest |-> es, merkle |-> es,
                        verdicts |-> vd, prev |-> att[r].prev, root |-> root, signature |-> root]
    BY Zenon
<1>4. /\ row.prev = att[r].prev /\ row.count = Len(es) /\ row.digest = es
      /\ row.merkle = es /\ row.verdicts = vd /\ row.signature = root
    BY <1>3, Zenon
<1>5. Signed(row, att[r].latest + 1, att[r].prev) /\ row.digest = att[r].batch
    BY <1>2, <1>4, Zenon DEF Signed
<1>6. att' = [att EXCEPT ![r].at = "insert", ![r].verdict = verdict, ![r].row = row]
    BY <1>2, <1>3, Zenon
<1>7. /\ DOMAIN att' = Replicas /\ DOMAIN att'[r] = Fields
      /\ att'[r].at = "insert" /\ att'[r].row = row /\ att'[r].batch = att[r].batch
      /\ att'[r].latest = att[r].latest /\ att'[r].prev = att[r].prev
      /\ \A q \in Replicas \ {r} : att'[q] = att[q]
    BY <1>1, <1>6, Zenon DEF Fields
<1>8. InHand(att'[r], rows)
    BY <1>1, <1>5, <1>7, Zenon DEF InHand
<1>9. UNCHANGED <<rows, covered>> /\ UNCHANGED <<rows, objects, observed>>
    BY Zenon DEF Sign, dbVars
<1>. QED  BY <1>7, <1>8, <1>9, AnchorKept, OneReplica, Zenon

\* PublishNew: the attestation inserted before.
LEMMA PublishNewInv == ASSUME AttInv, NEW r \in Replicas, PublishNew(r) PROVE AttInv'
<1>1. DOMAIN att = Replicas /\ att[r].latest \in DOMAIN rows /\ att[r].row = rows[att[r].latest]
    BY Zenon DEF AttInv, InHand, PublishNew, At
<1>2. PICK good \in BOOLEAN : Publish(att[r].latest, att[r].row.root, good)
    BY Zenon DEF PublishNew
<1>3. PICK s \in DOMAIN rows : s = att[r].latest
    BY <1>1, Zenon
<1>4. Publish(s, rows[s].root, good)
    BY <1>1, <1>2, <1>3, Zenon
<1>5. rows' = rows /\ UNCHANGED <<rows, covered>> /\ att' = [att EXCEPT ![r] = Idle]
    BY Zenon DEF PublishNew
<1>6. AnchorAgrees' /\ observed' \in Nat
    BY <1>4, <1>5, PublishSound, Zenon
<1>7. DOMAIN att' = Replicas /\ att'[r] = Idle /\ \A q \in Replicas \ {r} : att'[q] = att[q]
    BY <1>1, <1>5, Zenon
<1>8. InHand(att'[r], rows)
    BY <1>7, IdleInHand, Zenon
<1>. QED  BY <1>5, <1>6, <1>7, <1>8, OneReplica, Zenon

---------------------------------------------------------------------------
\* Insert

\* The seq is free only for who read the present end of the chain.
LEMMA InsertAtEnd ==
    ASSUME AttInv, NEW r \in Replicas, Insert(r)
    PROVE  \E n \in Nat : /\ DOMAIN rows = 1..n /\ att[r].latest = n
                          /\ DOMAIN rows' = 1..(n + 1)
                          /\ rows'[n + 1] = att[r].row
                          /\ \A s \in 1..n : rows'[s] = rows[s]
<1>1. PICK n \in Nat : DOMAIN rows = 1..n
    BY Zenon DEF AttInv, Gapless
<1>2. att[r].latest \in DOMAIN rows \cup {0} /\ att[r].latest + 1 \notin DOMAIN rows
    BY Zenon DEF AttInv, InHand, Insert, InsertAttestation, At
<1>3. att[r].latest = n
    BY <1>1, <1>2
<1>4. rows' = Over([s \in {att[r].latest + 1} |-> att[r].row], rows)
    BY Zenon DEF Insert, InsertAttestation
<1>5. PICK row : row = att[r].row
    BY Zenon
<1>6. rows' = Over([s \in {n + 1} |-> row], rows)
    BY <1>3, <1>4, <1>5, Zenon
<1>7. DOMAIN rows' = 1..(n + 1) /\ rows'[n + 1] = row /\ \A s \in 1..n : rows'[s] = rows[s]
    BY <1>1, <1>6 DEF Over
<1>. QED  BY <1>1, <1>3, <1>5, <1>7, Zenon

\* The new attestation goes on from the one before.
LEMMA InsertLinked ==
    ASSUME AttInv, NEW r \in Replicas, Insert(r)
    PROVE  ChainLinked'
<1>1. PICK n \in Nat : /\ DOMAIN rows = 1..n /\ att[r].latest = n
                       /\ DOMAIN rows' = 1..(n + 1)
                       /\ rows'[n + 1] = att[r].row
                       /\ \A s \in 1..n : rows'[s] = rows[s]
    BY InsertAtEnd, Zenon
<1>2. Signed(att[r].row, n + 1, att[r].prev) /\ att[r].prev = RootAt(rows, n)
    BY <1>1, Zenon DEF AttInv, InHand, Insert, At
<1>3. ChainLinked
    BY Zenon DEF AttInv, ChainSound
<1>4. ASSUME NEW s \in DOMAIN rows'
      PROVE  /\ rows'[s].prev = IF s = 1 THEN Genesis ELSE rows'[s - 1].root
             /\ rows'[s].signature = AttestationRootHash(s, rows'[s].prev, rows'[s].digest,
                   rows'[s].merkle, rows'[s].verdicts, rows'[s].count)
    <2>1. CASE s = n + 1
        <3>1. att[r].prev = IF s = 1 THEN Genesis ELSE rows'[s - 1].root
            <4>1. CASE n = 0
                BY <1>2, <2>1, <4>1 DEF RootAt
            <4>2. CASE n # 0
                <5>1. s # 1 /\ s - 1 = n /\ n \in 1..n
                    BY <2>1, <4>2
                <5>2. rows'[s - 1] = rows[n]
                    BY <5>1, <1>1, Zenon
                <5>. QED  BY <5>1, <5>2, <1>2, <4>2, Zenon DEF RootAt
            <4>. QED  BY <4>1, <4>2, Zenon
        <3>. QED  BY <1>1, <1>2, <2>1, <3>1, Zenon DEF Signed
    <2>2. CASE s # n + 1
        <3>1. s \in 1..n /\ (s # 1 => s - 1 \in 1..n)
            BY <1>1, <2>2
        <3>2. rows'[s] = rows[s] /\ (s # 1 => rows'[s - 1] = rows[s - 1])
            BY <1>1, <3>1, Zenon
        <3>. QED  BY <1>1, <1>3, <3>1, <3>2, Zenon DEF ChainLinked
    <2>. QED  BY <2>1, <2>2, Zenon
<1>. QED  BY <1>4, Zenon DEF ChainLinked

\* The new attestation covers its batch, and the older ones what they did.
LEMMA InsertCovers ==
    ASSUME AttInv, NEW r \in Replicas, Insert(r)
    PROVE  CoverageNamed' /\ CoverageMatchesBatch'
<1>1. PICK n \in Nat : /\ DOMAIN rows = 1..n /\ att[r].latest = n
                       /\ DOMAIN rows' = 1..(n + 1)
                       /\ rows'[n + 1] = att[r].row
                       /\ \A s \in 1..n : rows'[s] = rows[s]
    BY InsertAtEnd, Zenon
<1>2. Signed(att[r].row, n + 1, att[r].prev) /\ att[r].row.digest = att[r].batch
    BY <1>1, Zenon DEF AttInv, InHand, Insert, At
<1>3. CoverageNamed /\ CoverageMatchesBatch
    BY Zenon DEF AttInv, ChainSound
<1>4. PICK ids : ids = IdsOf(att[r].batch)
    BY Zenon
<1>5. PICK E : covered' = Over(E, covered) /\ DOMAIN E = ids /\ \A id \in ids : E[id].seq = n + 1
    <2> DEFINE E == [id \in ids |-> [seq |-> n + 1,
                       leaf |-> att[r].batch[CHOOSE i \in DOMAIN att[r].batch : att[r].batch[i].id = id],
                       verdict |-> att[r].verdict[JournalOf(id)]]]
    <2>1. covered' = Over(E, covered)
        BY <1>1, <1>4, Zenon DEF Insert, InsertAttestation
    <2>2. DOMAIN E = ids /\ \A id \in ids : E[id].seq = n + 1
        BY Zenon
    <2>. QED  BY <2>1, <2>2, Zenon
<1>6. /\ DOMAIN covered' = ids \cup DOMAIN covered
      /\ \A id \in ids : covered'[id].seq = n + 1
      /\ \A id \in DOMAIN covered \ ids : covered'[id] = covered[id]
    BY <1>5, Zenon DEF Over
<1>7. ids \cap DOMAIN covered = {}
    BY <1>4, Zenon DEF Insert, InsertAttestation
<1>8. \A id \in DOMAIN covered : covered[id].seq \in 1..n /\ covered'[id] = covered[id]
    BY <1>1, <1>3, <1>6, <1>7, Zenon DEF CoverageNamed
<1>9. CoverageNamed'
    <2>1. ASSUME NEW id \in DOMAIN covered' PROVE covered'[id].seq \in 1..(n + 1)
        BY <1>6, <1>8
    <2>. QED  BY <2>1, <1>1, Zenon DEF CoverageNamed
<1>10. ASSUME NEW s \in DOMAIN rows'
       PROVE  /\ IdsOf(rows'[s].digest) = {id \in DOMAIN covered' : covered'[id].seq = s}
              /\ Len(rows'[s].digest) = rows'[s].count
    <2>1. CASE s = n + 1
        <3>1. {id \in DOMAIN covered' : covered'[id].seq = s} = ids
            BY <1>6, <1>8, <2>1
        <3>. QED  BY <1>1, <1>2, <1>4, <2>1, <3>1, Zenon DEF Signed
    <2>2. CASE s # n + 1
        <3>1. s \in 1..n
            BY <1>1, <2>2
        <3>2. {id \in DOMAIN covered' : covered'[id].seq = s}
                = {id \in DOMAIN covered : covered[id].seq = s}
            BY <1>6, <1>8, <2>2, Zenon
        <3>. QED  BY <1>1, <1>3, <3>1, <3>2, Zenon DEF CoverageMatchesBatch
    <2>. QED  BY <2>1, <2>2, Zenon
<1>11. CoverageMatchesBatch'
    BY <1>10, Zenon DEF CoverageMatchesBatch, IdsOf
<1>. QED  BY <1>9, <1>11, Zenon

\* Insert: one more attestation, at the end.
LEMMA InsertInv == ASSUME AttInv, NEW r \in Replicas, Insert(r) PROVE AttInv'
<1>1. PICK n \in Nat : /\ DOMAIN rows = 1..n /\ att[r].latest = n
                       /\ DOMAIN rows' = 1..(n + 1)
                       /\ rows'[n + 1] = att[r].row
                       /\ \A s \in 1..n : rows'[s] = rows[s]
    BY InsertAtEnd, Zenon
<1>2. n + 1 \in Nat /\ 1..n \subseteq 1..(n + 1) /\ n + 1 \in 1..(n + 1)
    OBVIOUS
<1>3. Gapless'
    BY <1>1, <1>2, Zenon DEF Gapless
<1>4. ChainLinked' /\ CoverageNamed' /\ CoverageMatchesBatch'
    BY InsertLinked, InsertCovers, Zenon
<1>5. objects' = objects /\ observed' = observed
    BY Zenon DEF Insert
<1>6. observed \in Nat /\ AnchorAgrees
    BY Zenon DEF AttInv, ChainSound
<1>7. AnchorAgrees' /\ observed' \in Nat
    BY <1>1, <1>2, <1>5, <1>6, Zenon DEF AnchorAgrees, AnchorHead
<1>8. DOMAIN att = Replicas
    BY Zenon DEF AttInv
<1>9. PICK row : row = att[r].row
    BY Zenon
<1>10. att' = [att EXCEPT ![r] = [Idle EXCEPT !.at = "publish", !.latest = n + 1, !.row = row]]
    BY <1>1, <1>9, Zenon DEF Insert
<1>11. /\ DOMAIN att' = Replicas
       /\ DOMAIN att'[r] = Fields /\ att'[r].at = "publish"
       /\ att'[r].latest = n + 1 /\ att'[r].row = row
       /\ \A q \in Replicas \ {r} : att'[q] = att[q]
    BY <1>8, <1>10, Zenon DEF Idle, Fields
<1>12. InHand(att'[r], rows')
    BY <1>1, <1>2, <1>9, <1>11, Zenon DEF InHand
<1>13. ASSUME NEW q \in Replicas \ {r} PROVE InHand(att'[q], rows')
    <2>1. InHand(att[q], rows) /\ att'[q] = att[q]
        BY <1>11, Zenon DEF AttInv
    <2>2. InHand(att'[q], rows)
        BY <2>1, Zenon
    <2>3. DOMAIN rows \subseteq DOMAIN rows' /\ \A s \in DOMAIN rows : rows'[s] = rows[s]
        BY <1>1, <1>2, Zenon
    <2>. QED  BY <2>2, <2>3, InHandKept, Zenon
<1>. QED  BY <1>3, <1>4, <1>7, <1>11, <1>12, <1>13, Zenon DEF AttInv, ChainSound

---------------------------------------------------------------------------
\* The theorems

\* An empty chain, and nobody at work.
LEMMA AttInitInv == AttInit => AttInv
<1> SUFFICES ASSUME AttInit PROVE AttInv
    BY Zenon
<1>1. DOMAIN rows = 1..0 /\ DOMAIN rows = {} /\ DOMAIN covered = {} /\ DOMAIN objects = {}
    BY DEF AttInit
<1>2. Gapless
    <2>1. 0 \in Nat
        BY Zenon
    <2>. QED  BY <1>1, <2>1, Zenon DEF Gapless
<1>3. CoverageNamed /\ ChainLinked /\ CoverageMatchesBatch
    BY <1>1, Zenon DEF CoverageNamed, ChainLinked, CoverageMatchesBatch
<1>4. observed = 0 /\ observed \in Nat
    BY Zenon DEF AttInit
<1>5. observed <= AnchorHead
    <2>1. DOMAIN objects \subseteq 1..0
        BY <1>1, Zenon
    <2>2. AnchorHead \in 0..0
        BY <2>1, HeadIs, Zenon
    <2>. QED  BY <2>2, <1>4
<1>6. AnchorAgrees
    BY <1>1, <1>5, Zenon DEF AnchorAgrees
<1>7. DOMAIN att = Replicas /\ \A r \in Replicas : att[r] = Idle
    BY Zenon DEF AttInit
<1>8. \A r \in Replicas : InHand(att[r], rows)
    BY <1>7, IdleInHand, Zenon
<1>. QED  BY <1>2, <1>3, <1>4, <1>6, <1>7, <1>8, Zenon DEF AttInv, ChainSound

\* Every step keeps the invariant.
LEMMA AttStep == AttInv /\ [AttNext]_attVars => AttInv'
<1> SUFFICES ASSUME AttInv, [AttNext]_attVars PROVE AttInv'
    BY Zenon
<1>1. ASSUME NEW j \in Journals, PostJournal(j) PROVE AttInv'
    BY <1>1, PostJournalInv, Zenon
<1>2. ASSUME NEW r \in Replicas, RunAttestBatch(r) PROVE AttInv'
    <2>1. CASE Start(r)
        <3>1. Go(r, "head") /\ UNCHANGED <<dbVars, objects>>
            BY <2>1, Zenon DEF Start
        <3>. QED  BY <3>1, MovesOn, Zenon
    <2>2. CASE HeadUnavailable(r)
        <3>1. Go(r, "latest") /\ UNCHANGED <<dbVars, objects>>
            BY <2>2, Zenon DEF HeadUnavailable
        <3>. QED  BY <3>1, MovesOn, Zenon
    <2>3. CASE SignFails(r)
        <3>1. att' = [att EXCEPT ![r] = Idle] /\ UNCHANGED <<rows, covered, objects, observed>>
            BY <2>3, Zenon DEF SignFails, dbVars
        <3>. QED  BY <3>1, GivesUp, Zenon
    <2>4. CASE InsertRefused(r)
        <3>1. att' = [att EXCEPT ![r] = Idle] /\ UNCHANGED <<rows, covered, objects, observed>>
            BY <2>4, Zenon DEF InsertRefused, dbVars
        <3>. QED  BY <3>1, GivesUp, Zenon
    <2>. QED  BY <1>2, <2>1, <2>2, <2>3, <2>4, ReadHeadInv, ListMissingInv, CatchUpInv,
                 ReadLatestInv, ReadEntriesInv, SignInv, InsertInv, PublishNewInv, Zenon DEF RunAttestBatch
<1>3. ASSUME NEW r \in Replicas, Crash(r) PROVE AttInv'
    <2>1. att' = [att EXCEPT ![r] = Idle] /\ UNCHANGED <<rows, covered, objects, observed>>
        BY <1>3, Zenon DEF Crash, dbVars
    <2>. QED  BY <2>1, GivesUp, Zenon
<1>4. CASE UNCHANGED attVars
    <2>1. UNCHANGED <<rows, covered>> /\ UNCHANGED <<rows, objects, observed>> /\ att' = att /\ rows' = rows
        BY <1>4, Zenon DEF attVars, dbVars
    <2>2. DOMAIN att' = Replicas /\ \A q \in Replicas : InHand(att'[q], rows')
        BY <2>1, Zenon DEF AttInv
    <2>. QED  BY <2>1, <2>2, ChainKept, AnchorKept, Zenon DEF AttInv, ChainSound
<1>. QED  BY <1>1, <1>2, <1>3, <1>4, Zenon DEF AttNext

\* The inductive invariant of the attestation job: replicas that read the end
\* of the chain long before they insert hold an attestation that exists, and
\* what waits to be published is committed.
THEOREM AttestationInvariant == AttSpec => []AttInv
BY AttInitInv, AttStep, PTL DEF AttSpec

\* However many replicas run RunAttestBatch at once and wherever they die, the
\* chain is linked, a batch covers what it was signed over, and the anchor
\* holds committed roots alone.
THEOREM ChainsSound == AttSpec => []ChainSound
<1>1. AttInv => ChainSound
    BY Zenon DEF AttInv
<1>. QED  BY <1>1, AttestationInvariant, PTL

\* A committed attestation is never altered and never removed by the job: the
\* chain only grows, by one at its end.
THEOREM ChainGrows ==
    AttSpec => [][\E n \in Nat : /\ DOMAIN rows = 1..n /\ DOMAIN rows' \in {1..n, 1..(n + 1)}
                                 /\ \A s \in 1..n : rows'[s] = rows[s]]_attVars
<1> DEFINE Grows == \E n \in Nat : /\ DOMAIN rows = 1..n /\ DOMAIN rows' \in {1..n, 1..(n + 1)}
                                   /\ \A s \in 1..n : rows'[s] = rows[s]
<1>1. AttInv /\ [AttNext]_attVars => [Grows]_attVars
    <2> SUFFICES ASSUME AttInv, AttNext PROVE Grows
        BY Zenon
    <2>1. CASE rows' = rows
        BY <2>1, Zenon DEF AttInv, Gapless
    <2>2. ASSUME NEW r \in Replicas, Insert(r) PROVE Grows
        BY <2>2, InsertAtEnd, Zenon
    <2>3. ASSUME NEW r \in Replicas, RunAttestBatch(r) PROVE rows' = rows \/ Insert(r)
        BY <2>3, Zenon DEF RunAttestBatch, Start, ReadHead, HeadUnavailable, ListMissing, CatchUp, ReadLatest,
                    ReadEntries, Sign, SignFails, InsertRefused, PublishNew, dbVars
    <2>4. ASSUME NEW r \in Replicas, Crash(r) PROVE rows' = rows
        BY <2>4, Zenon DEF Crash, dbVars
    <2>5. ASSUME NEW j \in Journals, PostJournal(j) PROVE rows' = rows
        BY <2>5, Zenon DEF PostJournal
    <2>. QED  BY <2>1, <2>2, <2>3, <2>4, <2>5, Zenon DEF AttNext
<1>. QED  BY <1>1, AttestationInvariant, PTL DEF AttSpec

------------------------------------------------------------------------------
(* Locked jobs.                                                            *)

\* Where a tick of a locked job can be.
Places == {"idle", "acquire", "try", "work", "busy", "release"}

\* The tables of the worker have a row for every replica, every job and every tick.
Shapes ==
    /\ phase \in [Processes -> {"built", "reported", "running", "stopping"}]
    /\ report \in [Processes -> BOOLEAN]
    /\ local \in [Processes -> BOOLEAN]
    /\ early \in [Processes -> BOOLEAN]
    /\ lock \in [LockedJobs -> Processes \cup {NoReplica}]
    /\ tick \in [Ticks -> Places]
    /\ emitted \in [Ticks -> Nat]
    /\ lost \subseteq Ticks

\* A tick whose session lives holds the lock from TryLock to its release.
LockKept == \A t \in Ticks : tick[t] \in {"work", "busy", "release"} /\ t \notin lost => lock[t[2]] = t[1]

\* A tick has emitted nothing before it ends, and once when it has ended.
OutcomeOnce ==
    \A t \in Ticks : /\ tick[t] \in {"acquire", "try", "work", "busy"} => emitted[t] = 0
                     /\ tick[t] = "release" => emitted[t] = 1
                     /\ emitted[t] <= 1

\* Whoever subscribed before Run is in localDeliverer when the report is taken, and
\* in the report from then on.
SubscriberKnown ==
    \A r \in Processes : early[r] => /\ phase[r] = "built" => local[r]
                                     /\ phase[r] \in {"reported", "running"} => report[r]

WorkerInv == Shapes /\ LockKept /\ OutcomeOnce /\ SubscriberKnown

\* A tick is a replica and a job.
LEMMA TickParts ==
    ASSUME NEW t \in Ticks
    PROVE  t = <<t[1], t[2]>> /\ t[1] \in Processes /\ t[2] \in LockedJobs
BY DEF Ticks

\* Two ticks with the lock of one job are one tick.
LEMMA SameHolder ==
    ASSUME NEW t \in Ticks, NEW u \in Ticks, t[2] = u[2], t[1] = u[1]
    PROVE  t = u
BY TickParts, Zenon

\* The invariant is what JobsSound asks for, and more.
LEMMA WorkerInvSound == WorkerInv => JobsSound
<1> SUFFICES ASSUME WorkerInv PROVE JobsSound
  BY Zenon
<1>1. SingleFlight
  <2>1. ASSUME NEW t \in Ticks, InFn(t), t \notin lost PROVE lock[t[2]] = t[1]
    BY <2>1, Zenon DEF WorkerInv, LockKept, InFn
  <2>2. ASSUME NEW t \in Ticks, NEW u \in Ticks, t[2] = u[2], InFn(t), InFn(u), t # u
        PROVE  t \in lost \/ u \in lost
    BY <2>1, <2>2, SameHolder
  <2>. QED BY <2>1, <2>2, Zenon DEF SingleFlight
<1>2. OneOutcome
  BY Zenon DEF WorkerInv, OutcomeOnce, OneOutcome
<1>3. EarlySubscriberServed
  BY Zenon DEF WorkerInv, SubscriberKnown, EarlySubscriberServed
<1>. QED BY <1>1, <1>2, <1>3, Zenon DEF JobsSound

\* A new worker is sound.
LEMMA WorkerInitial == WorkerInit => WorkerInv
<1> SUFFICES ASSUME WorkerInit PROVE WorkerInv
  BY Zenon
<1>1. Shapes
  BY Zenon DEF WorkerInit, Shapes, Places
<1>2. LockKept /\ OutcomeOnce
  BY DEF WorkerInit, LockKept, OutcomeOnce
<1>3. SubscriberKnown
  BY Zenon DEF WorkerInit, SubscriberKnown
<1>. QED BY <1>1, <1>2, <1>3, Zenon DEF WorkerInv

\* Nothing of the worker's start changes with a tick, nor of the ticks with the start.
LEMMA TicksUntouched ==
    ASSUME WorkerInv, UNCHANGED tickVars, Shapes', SubscriberKnown'
    PROVE  WorkerInv'
BY Zenon DEF WorkerInv, LockKept, OutcomeOnce, tickVars

\* The steps of Run, Subscribe and the process around them.
LEMMA StartSteps ==
    ASSUME WorkerInv, NEW r \in Processes,
           Subscribe(r) \/ StartupReport(r) \/ Run(r) \/ Cancel(r) \/ Restart(r)
    PROVE  WorkerInv'
<1>0. UNCHANGED tickVars
  BY Zenon DEF Subscribe, StartupReport, Run, Cancel, Restart
<1> USE DEF WorkerInv, Shapes, SubscriberKnown, tickVars
<1>1. CASE Subscribe(r)
  BY <1>0, <1>1, TicksUntouched, Zenon DEF Subscribe
<1>2. CASE StartupReport(r)
  BY <1>0, <1>2, TicksUntouched, Zenon DEF StartupReport
<1>3. CASE Run(r)
  BY <1>0, <1>3, TicksUntouched, Zenon DEF Run
<1>4. CASE Cancel(r)
  BY <1>0, <1>4, TicksUntouched, Zenon DEF Cancel
<1>5. CASE Restart(r)
  BY <1>0, <1>5, TicksUntouched, Zenon DEF Restart
<1>. QED BY <1>1, <1>2, <1>3, <1>4, <1>5, Zenon

\* What a step of tick t leaves alone: the start of the workers, and every other tick.
OthersKept(t) ==
    /\ UNCHANGED startVars
    /\ \A u \in Ticks : u # t => tick'[u] = tick[u] /\ emitted'[u] = emitted[u] /\ (u \in lost' <=> u \in lost)

\* A tick that lets go of nobody else's lock, and keeps its own promises, is sound.
LEMMA TickSound ==
    ASSUME WorkerInv, NEW t \in Ticks, Shapes', OthersKept(t),
           tick'[t] \in {"work", "busy", "release"} /\ t \notin lost' => lock'[t[2]] = t[1],
           \A u \in Ticks : u # t /\ lock[u[2]] = u[1] /\ u \notin lost
                              /\ tick[u] \in {"work", "busy", "release"} => lock'[u[2]] = u[1],
           tick'[t] \in {"acquire", "try", "work", "busy"} => emitted'[t] = 0,
           tick'[t] = "release" => emitted'[t] = 1,
           emitted'[t] <= 1
    PROVE  WorkerInv'
<1>1. LockKept'
  BY Zenon DEF WorkerInv, LockKept, OthersKept
<1>2. OutcomeOnce'
  BY Zenon DEF WorkerInv, OutcomeOnce, OthersKept
<1>3. SubscriberKnown'
  BY Zenon DEF WorkerInv, SubscriberKnown, OthersKept, startVars
<1>. QED BY <1>1, <1>2, <1>3, Zenon DEF WorkerInv

\* The shape of the tables after a step that moves tick t.
LEMMA TickShapes ==
    ASSUME WorkerInv, NEW t \in Ticks, NEW to \in Places, Goto(t, to), UNCHANGED startVars,
           lock' \in [LockedJobs -> Processes \cup {NoReplica}], lost' \subseteq Ticks,
           Emit(t) \/ UNCHANGED emitted \/ emitted' = [emitted EXCEPT ![t] = 0]
    PROVE  /\ Shapes'
           /\ tick'[t] = to
           /\ \A u \in Ticks : u # t => tick'[u] = tick[u] /\ emitted'[u] = emitted[u]
BY DEF WorkerInv, Shapes, Goto, Emit, startVars

\* Moving tick t, with the lock and the lost sessions as they are.
LEMMA PlainMove ==
    ASSUME WorkerInv, NEW t \in Ticks, NEW to \in Places, Goto(t, to), UNCHANGED <<startVars, lock, lost>>,
           to \in {"work", "busy", "release"} => tick[t] \in {"work", "busy", "release"},
           \/ to \notin {"idle", "release"} /\ tick[t] \in {"acquire", "try", "work", "busy"} /\ UNCHANGED emitted
           \/ to \in {"idle", "release"} /\ tick[t] \in {"acquire", "try", "work", "busy"} /\ Emit(t)
    PROVE  WorkerInv'
<1>1. /\ Shapes'
      /\ tick'[t] = to
      /\ \A u \in Ticks : u # t => tick'[u] = tick[u] /\ emitted'[u] = emitted[u]
  <2>1. lock' \in [LockedJobs -> Processes \cup {NoReplica}] /\ lost' \subseteq Ticks
    BY Zenon DEF WorkerInv, Shapes
  <2>. QED BY <2>1, TickShapes, Zenon
<1>2. OthersKept(t)
  BY <1>1, Zenon DEF OthersKept
<1>3. emitted[t] = 0 /\ emitted \in [Ticks -> Nat]
  BY Zenon DEF WorkerInv, OutcomeOnce, Shapes
<1>4. /\ to \notin {"idle", "release"} => emitted'[t] = 0
      /\ to \in {"idle", "release"} => emitted'[t] = 1
  BY <1>3 DEF Emit
<1>5. tick'[t] \in {"work", "busy", "release"} /\ t \notin lost' => lock'[t[2]] = t[1]
  BY <1>1, Zenon DEF WorkerInv, LockKept
<1>. QED BY <1>1, <1>2, <1>4, <1>5, TickSound DEF Places

\* The steps of LockedJob.Run that neither take nor free the lock.
LEMMA PlainSteps ==
    ASSUME WorkerInv, NEW t \in Ticks,
           Acquire(t) \/ AcquireCancelled(t) \/ TryLockFails(t) \/ FnBegin(t) \/ FnReturn(t) \/ FnPanic(t)
    PROVE  WorkerInv'
<1>1. CASE Acquire(t)
  BY <1>1, PlainMove, Zenon DEF Acquire, Places
<1>2. CASE AcquireCancelled(t)
  BY <1>2, PlainMove, Zenon DEF AcquireCancelled, Places
<1>3. CASE TryLockFails(t)
  BY <1>3, PlainMove, Zenon DEF TryLockFails, Places
<1>4. CASE FnBegin(t)
  BY <1>4, PlainMove, Zenon DEF FnBegin, Places
<1>5. CASE FnReturn(t)
  BY <1>5, PlainMove, Zenon DEF FnReturn, Places
<1>6. CASE FnPanic(t)
  BY <1>6, PlainMove, Zenon DEF FnPanic, Places
<1>. QED BY <1>1, <1>2, <1>3, <1>4, <1>5, <1>6, Zenon

\* A new tick starts with a session of its own and no outcome.
LEMMA TickStep ==
    ASSUME WorkerInv, NEW t \in Ticks, Tick(t)
    PROVE  WorkerInv'
<1>1. /\ Shapes'
      /\ tick'[t] = "acquire"
      /\ \A u \in Ticks : u # t => tick'[u] = tick[u] /\ emitted'[u] = emitted[u]
  <2>1. lock' \in [LockedJobs -> Processes \cup {NoReplica}] /\ lost' \subseteq Ticks
    BY Zenon DEF WorkerInv, Shapes, Tick
  <2>. QED BY <2>1, TickShapes, Zenon DEF Tick, Places
<1>2. OthersKept(t)
  BY <1>1, Zenon DEF OthersKept, Tick
<1>3. emitted'[t] = 0
  BY Zenon DEF Tick, WorkerInv, Shapes
<1>. QED BY <1>1, <1>2, <1>3, TickSound DEF Tick

\* pg_try_advisory_lock gives the lock to nobody else's tick: who holds it is a replica.
LEMMA TryLockStep ==
    ASSUME WorkerInv, NEW t \in Ticks, TryLock(t)
    PROVE  WorkerInv'
<1>0. t[1] \in Processes /\ t[2] \in LockedJobs
  BY TickParts, Zenon
<1>1. CASE lock[t[2]] = NoReplica
  <2>1. /\ lock' = [lock EXCEPT ![t[2]] = t[1]]
        /\ Goto(t, "work")
        /\ UNCHANGED <<emitted, startVars, lost>>
        /\ tick[t] = "try"
    BY <1>1, Zenon DEF TryLock
  <2>2. lock' \in [LockedJobs -> Processes \cup {NoReplica}] /\ lost' \subseteq Ticks /\ lock'[t[2]] = t[1]
    BY <1>0, <2>1, Zenon DEF WorkerInv, Shapes
  <2>3. /\ Shapes'
        /\ tick'[t] = "work"
        /\ \A u \in Ticks : u # t => tick'[u] = tick[u] /\ emitted'[u] = emitted[u]
    BY <2>1, <2>2, TickShapes, Zenon DEF Places
  <2>4. OthersKept(t)
    BY <2>1, <2>3, Zenon DEF OthersKept
  <2>5. ASSUME NEW u \in Ticks, lock[u[2]] = u[1] PROVE lock'[u[2]] = u[1]
    <3>1. u[1] \in Processes /\ u[2] \in LockedJobs
      BY TickParts, Zenon
    <3>2. u[2] # t[2]
      BY <1>1, <2>5, <3>1, WorkerAssumption, Zenon
    <3>. QED BY <2>1, <2>5, <3>1, <3>2, Zenon DEF WorkerInv, Shapes
  <2>6. emitted'[t] = 0
    BY <2>1, Zenon DEF WorkerInv, OutcomeOnce
  <2>. QED BY <2>2, <2>3, <2>4, <2>5, <2>6, TickSound
<1>2. CASE lock[t[2]] # NoReplica
  BY <1>2, PlainMove, Zenon DEF TryLock, Places
<1>. QED BY <1>1, <1>2, Zenon

\* The release frees the lock of its own session and no other.
LEMMA ReleaseStep ==
    ASSUME WorkerInv, NEW t \in Ticks, Release(t)
    PROVE  WorkerInv'
<1>0. t[1] \in Processes /\ t[2] \in LockedJobs
  BY TickParts, Zenon
<1>1. lock' \in [LockedJobs -> Processes \cup {NoReplica}] /\ lost' \subseteq Ticks
  BY <1>0, Zenon DEF WorkerInv, Shapes, Release
<1>2. /\ Shapes'
      /\ tick'[t] = "idle"
      /\ \A u \in Ticks : u # t => tick'[u] = tick[u] /\ emitted'[u] = emitted[u]
  BY <1>1, TickShapes, Zenon DEF Places, Release
<1>3. OthersKept(t)
  BY <1>2, Zenon DEF OthersKept, Release
<1>4. ASSUME NEW u \in Ticks, u # t, lock[u[2]] = u[1] PROVE lock'[u[2]] = u[1]
  <2>1. CASE t \in lost
    BY <1>4, <2>1, Zenon DEF Release
  <2>2. CASE t \notin lost
    <3>1. lock[t[2]] = t[1]
      BY <2>2, Zenon DEF WorkerInv, LockKept, Release
    <3>2. u[2] # t[2]
      BY <1>4, <3>1, SameHolder, Zenon
    <3>3. u[2] \in LockedJobs
      BY TickParts, Zenon
    <3>. QED BY <1>0, <1>4, <3>2, <3>3, Zenon DEF Release, WorkerInv, Shapes
  <2>. QED BY <2>1, <2>2, Zenon
<1>5. emitted'[t] <= 1
  BY Zenon DEF Release, WorkerInv, OutcomeOnce
<1>. QED BY <1>2, <1>3, <1>4, <1>5, TickSound, Zenon

\* A session that dies takes only its own lock with it.
LEMMA SessionLostStep ==
    ASSUME WorkerInv, NEW t \in Ticks, SessionLost(t)
    PROVE  WorkerInv'
<1>0. t[1] \in Processes /\ t[2] \in LockedJobs
  BY TickParts, Zenon
<1>1. lock[t[2]] = t[1]
  BY Zenon DEF WorkerInv, LockKept, SessionLost
<1>2. Shapes'
  BY <1>0, Zenon DEF WorkerInv, Shapes, SessionLost, startVars
<1>3. OthersKept(t)
  BY Zenon DEF OthersKept, SessionLost
<1>4. ASSUME NEW u \in Ticks, u # t, lock[u[2]] = u[1] PROVE lock'[u[2]] = u[1]
  <2>1. u[2] # t[2]
    BY <1>1, <1>4, SameHolder, Zenon
  <2>2. u[2] \in LockedJobs
    BY TickParts, Zenon
  <2>. QED BY <1>0, <1>4, <2>1, <2>2, Zenon DEF SessionLost, WorkerInv, Shapes
<1>5. /\ t \in lost'
      /\ tick'[t] = tick[t] /\ emitted'[t] = emitted[t]
  BY Zenon DEF SessionLost
<1>6. /\ tick[t] \in {"acquire", "try", "work", "busy"} => emitted[t] = 0
      /\ tick[t] = "release" => emitted[t] = 1
      /\ emitted[t] <= 1
  BY Zenon DEF WorkerInv, OutcomeOnce
<1>. QED BY <1>2, <1>3, <1>4, <1>5, <1>6, TickSound, Zenon

\* Every step keeps the invariant.
LEMMA WorkerStep ==
    ASSUME WorkerInv, [WorkerNext]_workerVars
    PROVE  WorkerInv'
<1>1. CASE UNCHANGED workerVars
  BY <1>1, Zenon DEF WorkerInv, Shapes, LockKept, OutcomeOnce, SubscriberKnown, workerVars
<1>2. ASSUME NEW r \in Processes, Subscribe(r) \/ StartupReport(r) \/ Run(r) \/ Cancel(r) \/ Restart(r)
      PROVE  WorkerInv'
  BY <1>2, StartSteps, Zenon
<1>3. ASSUME NEW t \in Ticks, Tick(t) \/ Step(t) \/ Trouble(t)
      PROVE  WorkerInv'
  BY <1>3, TickStep, PlainSteps, TryLockStep, ReleaseStep, SessionLostStep, Zenon DEF Step, Trouble
<1>. QED BY <1>1, <1>2, <1>3, Zenon DEF WorkerNext

\* The invariant of the locked jobs, for any replicas, jobs and pool.
THEOREM WorkerInvariant == WorkerSpec => []WorkerInv
<1>1. WorkerInv /\ [WorkerNext]_workerVars => WorkerInv'
  BY WorkerStep, Zenon
<1>. QED BY <1>1, WorkerInitial, PTL DEF WorkerSpec

\* LockedJob.Run and Worker.Run: however many replicas run however many jobs, and whatever
\* fails, a job runs on one replica at a time, every tick has one outcome, and a handler
\* subscribed before Run is served.
THEOREM JobsAreSound == WorkerSpec => []JobsSound
BY WorkerInvariant, WorkerInvSound, PTL

------------------------------------------------------------------------------
(* Delivery of events.  Outbox knows no leases, so the argument is about   *)
(* them: only the worker whose claim is in the row can move it, and while  *)
(* that worker still has the event in hand the row is pending.             *)

\* Worker w is delivering event e.
Delivering(w, e) == pc[w] = "send" /\ cur[w] = e

\* The claim in the row belongs to a worker that has not yet recorded the outcome.
LeaseMeansPending ==
    \A w \in Workers, e \in Events :
        owner[e] = w /\ (e \in batch[w] \/ Delivering(w, e)) => status[e] = "pending"

\* A worker has only published events in hand, and none of them twice.
InHandPublished ==
    \A w \in Workers :
        /\ \A e \in batch[w] : status[e] # "none"
        /\ pc[w] = "send" => /\ cur[w] \in Events /\ cur[w] \notin batch[w]
                             /\ status[cur[w]] # "none"

\* Receivers that are there all the time are on every list.
SteadyListed ==
    /\ Steady \subseteq active
    /\ \A w \in Workers : pc[w] \in {"next", "send"} => Steady \subseteq listed[w]

\* As long as no call has failed, who is not still to be called has taken the event.
CalledHaveTaken ==
    \A w \in Workers : pc[w] = "send" =>
        /\ left[w] \subseteq Wants[cur[w]]
        /\ ok[w] => \A s \in Steady \cap Wants[cur[w]] : s \in left[w] \/ s \in accepted[cur[w]]

\* A row that is still to be tried has attempts left.
AttemptsLeft == \A e \in Events : status[e] \in {"none", "pending"} => attempts[e] < MaxAttempts

DeliveryInv ==
    /\ DeliveryTypeOK /\ LeaseMeansPending /\ InHandPublished
    /\ SteadyListed /\ CalledHaveTaken /\ AttemptsLeft

-----------------------------------------------------------------------------

\* Before anything is published the invariant holds.
LEMMA InitInv == Init => DeliveryInv
  BY DeliveryAssumption
  DEF Init, DeliveryInv, DeliveryTypeOK, LeaseMeansPending, Delivering, InHandPublished,
      SteadyListed, CalledHaveTaken, AttemptsLeft

\* The UPDATE of MarkDelivered and MarkRetry: the row it finds is the caller's and
\* pending, and the row it leaves is the caller's or nobody's.
LEMMA UpdateEffect ==
  ASSUME DeliveryInv, NEW w \in Workers, pc[w] = "send",
         NEW st \in {"pending", "delivered", "dead"}, NEW tries \in 0..MaxAttempts,
         st = "pending" => tries < MaxAttempts,
         Update(cur[w], w, st, tries)
  PROVE  LET e == cur[w] IN
         /\ e \in Events
         /\ owner[e] = w => /\ status[e] = "pending"
                            /\ status' = [status EXCEPT ![e] = st]
                            /\ attempts' = [attempts EXCEPT ![e] = tries]
                            /\ owner'[e] \in {w, NoWorker}
         /\ owner[e] # w => UNCHANGED rowVars
         /\ \A f \in Events \ {e} : status'[f] = status[f] /\ attempts'[f] = attempts[f] /\ owner'[f] = owner[f]
         /\ status' \in [Events -> {"none", "pending", "delivered", "dead"}]
         /\ attempts' \in [Events -> 0..MaxAttempts]
         /\ due' \in [Events -> BOOLEAN]
         /\ owner' \in [Events -> Workers \cup {NoWorker}]
<1> DEFINE e == cur[w]
<1> USE DEF DeliveryInv, DeliveryTypeOK
<1>1. e \in Events
  BY Zenon DEF InHandPublished
<1>2. CASE owner[e] = w
  <2>1. status[e] = "pending"
    BY <1>1, <1>2, Zenon DEF LeaseMeansPending, Delivering
  <2>2. /\ status' = [status EXCEPT ![e] = st]
        /\ attempts' = [attempts EXCEPT ![e] = tries]
        /\ owner' = [owner EXCEPT ![e] = IF st = "pending" THEN NoWorker ELSE @]
        /\ due' = [due EXCEPT ![e] = @ /\ st # "pending"]
    BY <1>2, Zenon DEF Update
  <2>3. due' \in [Events -> BOOLEAN]
    BY <2>2, Zenon
  <2>4. owner'[e] \in {w, NoWorker}
    BY <1>1, <1>2, <2>2, Zenon
  <2>5. \A f \in Events \ {e} :
           status'[f] = status[f] /\ attempts'[f] = attempts[f] /\ owner'[f] = owner[f]
    BY <2>2, Zenon
  <2>6. owner' \in [Events -> Workers \cup {NoWorker}]
    BY <1>1, <2>2, Zenon
  <2>7. status' \in [Events -> {"none", "pending", "delivered", "dead"}] /\ attempts' \in [Events -> 0..MaxAttempts]
    BY <1>1, <2>2, Zenon
  <2>. QED  BY <1>1, <1>2, <2>1, <2>2, <2>3, <2>4, <2>5, <2>6, <2>7, Zenon
<1>3. CASE owner[e] # w
  <2>1. UNCHANGED rowVars
    BY <1>3, Zenon DEF Update
  <2>. QED  BY <1>1, <1>3, <2>1, Zenon DEF rowVars
<1>. QED  BY <1>2, <1>3, Zenon

\* What Record writes: delivered as it stands, or one more failure, which is the last one
\* exactly when the limit is reached.
LEMMA RecordIsUpdate ==
  ASSUME DeliveryInv, NEW w \in Workers, Record(w)
  PROVE  \E st \in {"pending", "delivered", "dead"}, tries \in 0..MaxAttempts :
            /\ st = "pending" => tries < MaxAttempts
            /\ Update(cur[w], w, st, tries)
<1> DEFINE e == cur[w]
<1>1. e \in Events /\ pc[w] = "send"
  BY Zenon DEF DeliveryInv, InHandPublished, Record
<1>2. attempts[e] \in 0..MaxAttempts /\ MaxAttempts \in Nat
  BY <1>1, DeliveryAssumption, Zenon DEF DeliveryInv, DeliveryTypeOK
<1>3. CASE owner[e] # w
  <2>1. UNCHANGED rowVars
    BY <1>3, Zenon DEF Record, MarkDelivered, MarkRetry, Update
  <2>2. Update(e, w, "dead", 0)
    BY <1>3, <2>1, Zenon DEF Update
  <2>. QED  BY <1>2, <2>2
<1>4. CASE owner[e] = w
  <2>1. attempts[e] < MaxAttempts
    BY <1>1, <1>4, Zenon DEF DeliveryInv, LeaseMeansPending, Delivering, AttemptsLeft
  <2>2. CASE ok[w]
    <3>1. Update(e, w, "delivered", attempts[e])
      BY <2>2, Zenon DEF Record, MarkDelivered
    <3>. QED  BY <1>2, <3>1, Zenon
  <2>3. CASE ~ok[w]
    <3>1. Update(e, w, IF attempts[e] + 1 >= MaxAttempts THEN "dead" ELSE "pending", attempts[e] + 1)
      BY <2>3, Zenon DEF Record, MarkRetry
    <3>2. attempts[e] + 1 \in 0..MaxAttempts
      BY <1>2, <2>1
    <3>3. CASE attempts[e] + 1 >= MaxAttempts
      <4>1. Update(e, w, "dead", attempts[e] + 1)
        BY <3>1, <3>3, Zenon
      <4>. QED  BY <3>2, <4>1, Zenon
    <3>4. CASE ~(attempts[e] + 1 >= MaxAttempts)
      <4>1. Update(e, w, "pending", attempts[e] + 1)
        BY <3>1, <3>4, Zenon
      <4>2. attempts[e] + 1 < MaxAttempts
        BY <1>2, <3>4
      <4>. QED  BY <3>2, <4>1, <4>2, Zenon
    <3>. QED  BY <3>3, <3>4, Zenon
  <2>. QED  BY <2>2, <2>3, Zenon
<1>. QED  BY <1>3, <1>4, Zenon

\* Each step of a worker, of time, of an operator and each crash keeps the invariant.
LEMMA NextInv == DeliveryInv /\ [Next]_vars => DeliveryInv'
<1> SUFFICES ASSUME DeliveryInv, [Next]_vars PROVE DeliveryInv'
  BY Zenon
<1> USE DeliveryAssumption DEF DeliveryInv
<1>1. ASSUME NEW e \in Events, PublishEvent(e) PROVE DeliveryInv'
  <2>1. DeliveryTypeOK' /\ SteadyListed' /\ AttemptsLeft' /\ CalledHaveTaken'
    BY <1>1, Zenon DEF PublishEvent, DeliveryTypeOK, SteadyListed, AttemptsLeft, CalledHaveTaken, workVars, bounds
  <2>2. LeaseMeansPending' /\ InHandPublished'
    BY <1>1 DEF PublishEvent, DeliveryTypeOK, LeaseMeansPending, InHandPublished, Delivering, workVars, bounds
  <2>. QED  BY <2>1, <2>2, Zenon
<1>2. ASSUME NEW e \in Events, TimePasses(e) PROVE DeliveryInv'
  <2>1. DeliveryTypeOK' /\ SteadyListed' /\ AttemptsLeft' /\ CalledHaveTaken'
    BY <1>2, Zenon DEF TimePasses, DeliveryTypeOK, SteadyListed, AttemptsLeft, CalledHaveTaken, workVars
  <2>2. LeaseMeansPending' /\ InHandPublished'
    BY <1>2, Zenon DEF TimePasses, DeliveryTypeOK, LeaseMeansPending, InHandPublished, Delivering, workVars
  <2>. QED  BY <2>1, <2>2, Zenon
<1>3. ASSUME NEW w \in Workers, GetPendingEvents(w) PROVE DeliveryInv'
  <2>1. PICK S \in SUBSET Claimable :
           /\ batch' = [batch EXCEPT ![w] = S]
           /\ due'   = [e \in Events |-> due[e] /\ e \notin S]
           /\ owner' = [e \in Events |-> IF e \in S THEN w ELSE owner[e]]
    BY <1>3, Zenon DEF GetPendingEvents
  <2>2. /\ pc' = [pc EXCEPT ![w] = "list"] /\ pc[w] = "idle"
        /\ UNCHANGED <<status, attempts, active, accepted, listed, cur, left, ok, bounds>>
    BY <1>3, Zenon DEF GetPendingEvents
  <2>3. S \subseteq Events /\ \A e \in S : status[e] = "pending"
    BY Zenon DEF Claimable
  <2>4. due' \in [Events -> BOOLEAN]
    BY <2>1, Zenon DEF DeliveryTypeOK
  <2>5. DeliveryTypeOK'
    BY <2>1, <2>2, <2>3, <2>4, Zenon DEF DeliveryTypeOK
  <2>6. SteadyListed' /\ AttemptsLeft' /\ CalledHaveTaken'
    BY <2>2, ZenonT(30) DEF DeliveryTypeOK, SteadyListed, AttemptsLeft, CalledHaveTaken
  <2>7. LeaseMeansPending'
    BY <2>1, <2>2, <2>3, ZenonT(30) DEF DeliveryTypeOK, LeaseMeansPending, Delivering
  <2>8. InHandPublished'
    BY <2>1, <2>2, <2>3, Zenon DEF DeliveryTypeOK, InHandPublished
  <2>. QED  BY <2>5, <2>6, <2>7, <2>8, Zenon
<1>4. ASSUME NEW w \in Workers, ListActiveSubscribers(w) PROVE DeliveryInv'
  <2>1. DeliveryTypeOK' /\ SteadyListed' /\ AttemptsLeft' /\ CalledHaveTaken'
    BY <1>4 DEF ListActiveSubscribers, DeliveryTypeOK, SteadyListed, AttemptsLeft, CalledHaveTaken, rowVars
  <2>2. LeaseMeansPending' /\ InHandPublished'
    BY <1>4 DEF ListActiveSubscribers, DeliveryTypeOK, LeaseMeansPending, InHandPublished, Delivering, rowVars
  <2>. QED  BY <2>1, <2>2, Zenon
<1>5. ASSUME NEW w \in Workers, NextEvent(w) PROVE DeliveryInv'
  <2>1. DeliveryTypeOK'
    <3>1. CASE batch[w] = {}
      BY <1>5, <3>1, Zenon DEF NextEvent, DeliveryTypeOK, rowVars
    <3>2. CASE batch[w] # {}
      <4>1. PICK e \in batch[w] :
               /\ batch' = [batch EXCEPT ![w] = @ \ {e}] /\ cur' = [cur EXCEPT ![w] = e]
               /\ left' = [left EXCEPT ![w] = MatchSubscribers(w, e)]
               /\ ok' = [ok EXCEPT ![w] = TRUE] /\ pc' = [pc EXCEPT ![w] = "send"]
        BY <1>5, <3>2, Zenon DEF NextEvent
      <4>2. UNCHANGED <<rowVars, active, accepted, listed>>
        BY <1>5, Zenon DEF NextEvent
      <4>3. MatchSubscribers(w, e) \subseteq Parties
        BY Zenon DEF MatchSubscribers, DeliveryTypeOK
      <4>4. ok' \in [Workers -> BOOLEAN]
        BY <4>1, Zenon DEF DeliveryTypeOK
      <4>. QED  BY <4>1, <4>2, <4>3, <4>4, Zenon DEF DeliveryTypeOK, rowVars
    <3>. QED  BY <3>1, <3>2, Zenon
  <2>2. SteadyListed' /\ AttemptsLeft'
    BY <1>5, Zenon DEF NextEvent, DeliveryTypeOK, SteadyListed, AttemptsLeft, rowVars
  <2>3. CalledHaveTaken'
    BY <1>5 DEF NextEvent, DeliveryTypeOK, CalledHaveTaken, SteadyListed, MatchSubscribers, rowVars
  <2>4. LeaseMeansPending' /\ InHandPublished'
    BY <1>5 DEF NextEvent, DeliveryTypeOK, LeaseMeansPending, InHandPublished, Delivering, rowVars
  <2>. QED  BY <2>1, <2>2, <2>3, <2>4, Zenon
<1>6. ASSUME NEW w \in Workers, Send(w) PROVE DeliveryInv'
  <2>1. PICK s \in left[w], taken \in BOOLEAN, acked \in BOOLEAN :
           /\ acked => taken
           /\ left' = [left EXCEPT ![w] = @ \ {s}]
           /\ accepted' = IF taken THEN [accepted EXCEPT ![cur[w]] = @ \cup {s}] ELSE accepted
           /\ ok' = [ok EXCEPT ![w] = @ /\ acked]
    BY <1>6, Zenon DEF Send
  <2>2. pc[w] = "send" /\ UNCHANGED <<rowVars, active, batch, listed, cur, pc, bounds>>
    BY <1>6, Zenon DEF Send
  <2>3. ok' \in [Workers -> BOOLEAN]
    BY <2>1, Zenon DEF DeliveryTypeOK
  <2>4. ok'[w] => ok[w] /\ taken
    BY <2>1, Zenon DEF DeliveryTypeOK
  <2>5. \A v \in Workers \ {w} : ok'[v] = ok[v]
    BY <2>1, Zenon DEF DeliveryTypeOK
  <2>6. DeliveryTypeOK'
    BY <2>1, <2>2, <2>3 DEF DeliveryTypeOK, InHandPublished, rowVars
  <2>7. SteadyListed' /\ AttemptsLeft' /\ LeaseMeansPending' /\ InHandPublished'
    BY <2>2, Zenon DEF DeliveryTypeOK, SteadyListed, AttemptsLeft, LeaseMeansPending, InHandPublished, Delivering, rowVars
  <2>8. \A e \in Events : accepted[e] \subseteq accepted'[e]
    BY <2>1, Zenon DEF DeliveryTypeOK
  <2>9. ASSUME NEW v \in Workers, pc[v] = "send", v # w
        PROVE  /\ left'[v] \subseteq Wants[cur[v]]
               /\ ok'[v] => \A t \in Steady \cap Wants[cur[v]] : t \in left'[v] \/ t \in accepted'[cur[v]]
    <3>1. cur[v] \in Events /\ left'[v] = left[v] /\ ok'[v] = ok[v]
      BY <2>1, <2>5, <2>9, Zenon DEF DeliveryTypeOK, InHandPublished
    <3>. QED  BY <2>8, <2>9, <3>1, Zenon DEF CalledHaveTaken
  <2>10. /\ left'[w] \subseteq Wants[cur[w]]
         /\ ok'[w] => \A t \in Steady \cap Wants[cur[w]] : t \in left'[w] \/ t \in accepted'[cur[w]]
    <3>1. cur[w] \in Events /\ left'[w] = left[w] \ {s}
      BY <2>1, <2>2, Zenon DEF DeliveryTypeOK, InHandPublished
    <3>2. taken => s \in accepted'[cur[w]]
      BY <2>1, <3>1, Zenon DEF DeliveryTypeOK
    <3>. QED  BY <2>2, <2>4, <2>8, <3>1, <3>2, Zenon DEF CalledHaveTaken
  <2>11. CalledHaveTaken'
    BY <2>2, <2>9, <2>10, Zenon DEF CalledHaveTaken
  <2>. QED  BY <2>6, <2>7, <2>11, Zenon
<1>7. ASSUME NEW w \in Workers, Record(w) PROVE DeliveryInv'
  <2>1. /\ pc[w] = "send"
        /\ cur' = [cur EXCEPT ![w] = NoEvent] /\ pc' = [pc EXCEPT ![w] = "next"]
        /\ UNCHANGED <<active, accepted, batch, listed, left, ok, bounds>>
    BY <1>7, Zenon DEF Record
  <2>2. PICK st \in {"pending", "delivered", "dead"}, tries \in 0..MaxAttempts :
           /\ st = "pending" => tries < MaxAttempts
           /\ Update(cur[w], w, st, tries)
    BY <1>7, RecordIsUpdate, Zenon
  <2> DEFINE e == cur[w]
  <2>3. /\ e \in Events
        /\ owner[e] = w => /\ status[e] = "pending"
                           /\ status' = [status EXCEPT ![e] = st]
                           /\ attempts' = [attempts EXCEPT ![e] = tries]
                           /\ owner'[e] \in {w, NoWorker}
        /\ owner[e] # w => UNCHANGED rowVars
        /\ \A f \in Events \ {e} :
              status'[f] = status[f] /\ attempts'[f] = attempts[f] /\ owner'[f] = owner[f]
        /\ status' \in [Events -> {"none", "pending", "delivered", "dead"}]
        /\ attempts' \in [Events -> 0..MaxAttempts]
        /\ due' \in [Events -> BOOLEAN]
        /\ owner' \in [Events -> Workers \cup {NoWorker}]
    BY <2>1, <2>2, UpdateEffect, Zenon
  <2>4. DeliveryTypeOK'
    BY <2>1, <2>3, Zenon DEF DeliveryTypeOK
  <2>5. SteadyListed' /\ CalledHaveTaken'
    BY <2>1, Zenon DEF DeliveryTypeOK, SteadyListed, CalledHaveTaken
  <2>6. AttemptsLeft'
    BY <2>2, <2>3, Zenon DEF DeliveryTypeOK, AttemptsLeft, rowVars
  <2>7. InHandPublished'
    BY <2>1, <2>3 DEF DeliveryTypeOK, InHandPublished, rowVars
  <2>8. ASSUME NEW v \in Workers, NEW f \in Events, owner'[f] = v,
               f \in batch'[v] \/ (pc'[v] = "send" /\ cur'[v] = f)
        PROVE  status'[f] = "pending"
    <3>1. f \in batch[v] \/ Delivering(v, f)
      BY <2>1, <2>8, Zenon DEF DeliveryTypeOK, Delivering
    <3>2. CASE owner[e] # w
      BY <2>3, <2>8, <3>1, <3>2, Zenon DEF LeaseMeansPending, rowVars
    <3>3. CASE owner[e] = w /\ f # e
      BY <2>3, <2>8, <3>1, <3>3, Zenon DEF LeaseMeansPending
    <3>4. CASE owner[e] = w /\ f = e
      <4>1. e \notin batch[w] /\ pc'[w] = "next" /\ batch' = batch
        BY <2>1, Zenon DEF InHandPublished, DeliveryTypeOK
      <4>2. v = w
        BY <2>3, <2>8, <3>4, Zenon
      <4>. QED  BY <2>8, <3>4, <4>1, <4>2, Zenon
    <3>. QED  BY <3>2, <3>3, <3>4, Zenon
  <2>9. LeaseMeansPending'
    BY <2>8, Zenon DEF LeaseMeansPending, Delivering
  <2>. QED  BY <2>4, <2>5, <2>6, <2>7, <2>9, Zenon
<1>8. ASSUME NEW w \in Workers, WorkerDies(w) PROVE DeliveryInv'
  <2>1. DeliveryTypeOK' /\ SteadyListed' /\ AttemptsLeft' /\ CalledHaveTaken'
    BY <1>8, Zenon DEF WorkerDies, DeliveryTypeOK, SteadyListed, AttemptsLeft, CalledHaveTaken, rowVars
  <2>2. LeaseMeansPending' /\ InHandPublished'
    BY <1>8 DEF WorkerDies, DeliveryTypeOK, LeaseMeansPending, InHandPublished, Delivering, rowVars
  <2>. QED  BY <2>1, <2>2, Zenon
<1>9. ASSUME NEW s \in Parties, Toggle(s) PROVE DeliveryInv'
  <2>1. DeliveryTypeOK' /\ SteadyListed' /\ AttemptsLeft' /\ CalledHaveTaken'
    BY <1>9 DEF Toggle, DeliveryTypeOK, SteadyListed, AttemptsLeft, CalledHaveTaken, rowVars, workVars
  <2>2. LeaseMeansPending' /\ InHandPublished'
    BY <1>9, Zenon DEF Toggle, DeliveryTypeOK, LeaseMeansPending, InHandPublished, Delivering, rowVars, workVars
  <2>. QED  BY <2>1, <2>2, Zenon
<1>10. CASE UNCHANGED vars
  BY <1>10, ZenonT(30) DEF vars, rowVars, workVars, bounds, DeliveryTypeOK, SteadyListed, AttemptsLeft,
      CalledHaveTaken, LeaseMeansPending, InHandPublished, Delivering
<1>. QED  BY <1>1, <1>2, <1>3, <1>4, <1>5, <1>6, <1>7, <1>8, <1>9, <1>10, Zenon DEF Next, Work

\* The workers' bookkeeping never disagrees with the rows: a claim still in the row of an
\* event in hand means the event is pending, and calls that all succeeded mean that every
\* steady receiver has taken the event (GetPendingEvents, processEvent).
THEOREM LeasesSound == DeliverySafe => []DeliveryInv
<1>. QED  BY InitInv, NextInv, PTL DEF DeliverySafe

\* A step of a dispatcher is a step of Outbox or changes nothing that Outbox sees.
LEMMA StepKeepsPromise == DeliveryInv /\ [Next]_vars => [Outbox!OutboxNext]_(Outbox!outboxVars)
<1> SUFFICES ASSUME DeliveryInv, [Next]_vars PROVE Outbox!OutboxNext \/ UNCHANGED Outbox!outboxVars
  BY Zenon
<1> USE DEF DeliveryInv
<1>1. ASSUME NEW e \in Events, PublishEvent(e) PROVE Outbox!OutboxNext
  <2>1. Outbox!Publish(e)
    BY <1>1, Zenon DEF PublishEvent, Outbox!Publish
  <2>. QED  BY <2>1, Zenon DEF Outbox!OutboxNext
<1>2. ASSUME NEW w \in Workers, Send(w) PROVE Outbox!OutboxNext \/ UNCHANGED Outbox!outboxVars
  <2>1. PICK s \in left[w], taken \in BOOLEAN :
           accepted' = IF taken THEN [accepted EXCEPT ![cur[w]] = @ \cup {s}] ELSE accepted
    BY <1>2, Zenon DEF Send
  <2>2. pc[w] = "send" /\ UNCHANGED <<status, attempts>>
    BY <1>2, Zenon DEF Send, rowVars
  <2>3. cur[w] \in Events /\ status[cur[w]] # "none" /\ s \in Wants[cur[w]] /\ s \in Parties
    BY <2>2, Zenon DEF InHandPublished, CalledHaveTaken, DeliveryTypeOK
  <2>4. CASE taken
    <3>1. Outbox!Accept(cur[w], s)
      BY <2>1, <2>2, <2>3, <2>4, Zenon DEF Outbox!Accept
    <3>. QED  BY <2>3, <3>1, Zenon DEF Outbox!OutboxNext
  <2>5. CASE ~taken
    BY <2>1, <2>2, <2>5, Zenon DEF Outbox!outboxVars
  <2>. QED  BY <2>4, <2>5, Zenon
<1>3. ASSUME NEW w \in Workers, Record(w) PROVE Outbox!OutboxNext \/ UNCHANGED Outbox!outboxVars
  <2> DEFINE e == cur[w]
  <2>1. e \in Events /\ pc[w] = "send" /\ left[w] = {} /\ UNCHANGED accepted
    BY <1>3, Zenon DEF Record, InHandPublished
  <2>2. CASE owner[e] # w
    BY <1>3, <2>1, <2>2, Zenon DEF Record, MarkDelivered, MarkRetry, Update, rowVars, Outbox!outboxVars
  <2>3. CASE owner[e] = w /\ ok[w]
    <3>1. status' = [status EXCEPT ![e] = "delivered"] /\ attempts' = [attempts EXCEPT ![e] = attempts[e]]
      BY <1>3, <2>3, Zenon DEF Record, MarkDelivered, Update
    <3>2. attempts' = attempts
      BY <3>1, Zenon DEF DeliveryTypeOK
    <3>3. status[e] = "pending"
      BY <2>1, <2>3, Zenon DEF LeaseMeansPending, Delivering
    <3>4. Steady \cap Wants[e] \subseteq accepted[e]
      BY <2>1, <2>3, Zenon DEF CalledHaveTaken
    <3>5. Outbox!Deliver(e)
      BY <2>1, <3>1, <3>2, <3>3, <3>4, Zenon DEF Outbox!Deliver
    <3>. QED  BY <2>1, <3>5, Zenon DEF Outbox!OutboxNext
  <2>4. CASE owner[e] = w /\ ~ok[w]
    <3>1. status[e] = "pending"
      BY <2>1, <2>4, Zenon DEF LeaseMeansPending, Delivering
    <3>2. /\ status' = [status EXCEPT ![e] = IF attempts[e] + 1 >= MaxAttempts THEN "dead" ELSE "pending"]
          /\ attempts' = [attempts EXCEPT ![e] = attempts[e] + 1]
      BY <1>3, <2>4, Zenon DEF Record, MarkRetry, Update
    <3>3. Outbox!Fail(e)
      BY <2>1, <3>1, <3>2, Zenon DEF Outbox!Fail
    <3>. QED  BY <2>1, <3>3, Zenon DEF Outbox!OutboxNext
  <2>. QED  BY <2>2, <2>3, <2>4, Zenon
<1>4. ASSUME NEW w \in Workers,
             GetPendingEvents(w) \/ ListActiveSubscribers(w) \/ NextEvent(w) \/ WorkerDies(w)
      PROVE  UNCHANGED Outbox!outboxVars
  BY <1>4, Zenon DEF GetPendingEvents, ListActiveSubscribers, NextEvent, WorkerDies, rowVars, Outbox!outboxVars
<1>5. ASSUME NEW e \in Events, TimePasses(e) PROVE UNCHANGED Outbox!outboxVars
  BY <1>5, Zenon DEF TimePasses, Outbox!outboxVars
<1>6. ASSUME NEW s \in Parties, Toggle(s) PROVE UNCHANGED Outbox!outboxVars
  BY <1>6, Zenon DEF Toggle, rowVars, Outbox!outboxVars
<1>7. CASE UNCHANGED vars
  BY <1>7, Zenon DEF vars, rowVars, Outbox!outboxVars
<1>. QED  BY <1>1, <1>2, <1>3, <1>4, <1>5, <1>6, <1>7, Zenon DEF Next, Work

\* Delivery with leases implements Outbox: for any number of workers, deaths, lost answers
\* and leases that run out, an outcome is final, "delivered" is written only after every
\* steady receiver took the event and "dead" only after MaxAttempts counted failures.
THEOREM Refinement == DeliverySafe => KeepsPromise
<1>1. Init => Outbox!OutboxInit
  BY Zenon DEF Init, Outbox!OutboxInit
<1>. QED  BY <1>1, LeasesSound, StepKeepsPromise, PTL DEF DeliverySafe, KeepsPromise, Outbox!OutboxSafe
==============================================================================
