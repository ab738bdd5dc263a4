---------------------------- MODULE ReserverProofs ----------------------------
(***************************************************************************)
(* No reservation is sold twice, every discharge is applied once and no    *)
(* retry is refused, for every set of clients, reservations, keys and      *)
(* amounts.                                                                *)
(***************************************************************************)
EXTENDS Reserver, FiniteSetTheorems, WellFoundedInduction, TLAPS

-------------------------------------------------------------------------------
(***************************************************************************)
(* What the proofs need to know of SumFunctionOnSet: the sum over a finite *)
(* set does not depend on the order of its elements, it is monotone, and   *)
(* it moves by what one summand moves.  The library states such facts with *)
(* operator parameters; here induction is over sets of sets, {T : P(T)}.   *)
(***************************************************************************)

\* Induction over the naturals, for a set of naturals.
LEMMA NatSetInduction ==
    ASSUME NEW B, 0 \in B, \A n \in Nat : n \in B => n + 1 \in B
    PROVE  Nat \subseteq B
<1> DEFINE T == {n \in Nat : n \notin B}
<1> SUFFICES ASSUME T # {} PROVE FALSE
    BY Zenon
<1>1. PICK m \in T : \A y \in T : ~ (<<y, m>> \in OpToRel(<, Nat))
    <2>1. T \subseteq Nat
        BY Zenon
    <2>. HIDE DEF T
    <2>. QED  BY <2>1, WFMin, NatLessThanWellFounded, Zenon
<1>2. \A y \in T : ~ (y < m)
    BY <1>1, Zenon DEF OpToRel
<1>3. m \in Nat /\ m # 0 /\ m - 1 \in Nat /\ m - 1 < m
    OBVIOUS
<1>4. m - 1 \in B
    BY <1>2, <1>3, Zenon
<1>. QED  BY <1>3, <1>4

\* Induction over the subsets of a finite set, for a set of sets.
LEMMA FiniteSetInduction ==
    ASSUME NEW S, IsFiniteSet(S), NEW F, {} \in F,
           \A T \in SUBSET S : \A x \in S \ T : T \in F => T \cup {x} \in F
    PROVE  SUBSET S \subseteq F
<1> DEFINE B == {n \in Nat : \A T \in SUBSET S : Cardinality(T) = n => T \in F}
<1>1. \A T \in SUBSET S : IsFiniteSet(T) /\ Cardinality(T) \in Nat
    BY FS_Subset, FS_CardinalityType, Zenon
<1>2. 0 \in B
    BY <1>1, FS_EmptySet, Zenon
<1>3. ASSUME NEW n \in Nat, n \in B PROVE n + 1 \in B
    <2>. SUFFICES ASSUME NEW T \in SUBSET S, Cardinality(T) = n + 1 PROVE T \in F
        OBVIOUS
    <2>1. PICK x \in T : TRUE
        BY <1>1, FS_EmptySet
    <2>2. Cardinality(T \ {x}) = n
        <3>1. IsFiniteSet(T) /\ x \in T
            BY <1>1, Zenon
        <3>2. Cardinality(T \ {x}) = Cardinality(T) - 1
            BY <3>1, FS_RemoveElement, Zenon
        <3>. QED  BY <3>2
    <2>3. T \ {x} \in F
        BY <1>3, <2>2, Zenon
    <2>4. (T \ {x}) \cup {x} = T
        BY Zenon
    <2>5. T \ {x} \in SUBSET S /\ x \in S \ (T \ {x})
        BY Zenon
    <2>. QED  BY <2>3, <2>4, <2>5, Zenon
<1>4. Nat \subseteq B
    <2>. HIDE DEF B
    <2>. QED  BY <1>2, <1>3, NatSetInduction, Zenon
<1>. QED  BY <1>1, <1>4, Zenon

-----------------------------------------------------------------------------
Pick(s) == CHOOSE x \in s : TRUE

\* g sums f over the subsets of S, in the order in which Pick takes their elements.
Sums(g, f, S) ==
    g = [s \in SUBSET S |-> IF s = {} THEN 0 ELSE f[Pick(s)] + g[s \ {Pick(s)}]]

\* What SumFunctionOnSet is.
LEMMA SumIsChosen ==
    ASSUME NEW f, NEW S
    PROVE  SumFunctionOnSet(f, S) = (CHOOSE g : Sums(g, f, S))[S]
BY Zenon DEF SumFunctionOnSet, FoldFunctionOnSet, MapThenFoldSet, Sums, Pick

\* Two ways of summing agree on the subsets both know.
LEMMA SumsAgree ==
    ASSUME NEW f, NEW S, IsFiniteSet(S), NEW g, Sums(g, f, S),
           NEW T \in SUBSET S, NEW h, Sums(h, f, T)
    PROVE  \A s \in SUBSET T : g[s] = h[s]
<1> DEFINE B == {n \in Nat : \A s \in SUBSET T : Cardinality(s) = n => g[s] = h[s]}
<1>1. \A s \in SUBSET T : IsFiniteSet(s) /\ Cardinality(s) \in Nat
    BY FS_Subset, FS_CardinalityType, Zenon
<1>2. 0 \in B
    <2>. SUFFICES ASSUME NEW s \in SUBSET T, Cardinality(s) = 0 PROVE g[s] = h[s]
        BY Zenon
    <2>1. s = {} /\ s \in SUBSET S
        BY <1>1, FS_EmptySet, Zenon
    <2>. QED  BY <2>1, Zenon DEF Sums
<1>3. ASSUME NEW n \in Nat, n \in B PROVE n + 1 \in B
    <2>. SUFFICES ASSUME NEW s \in SUBSET T, Cardinality(s) = n + 1 PROVE g[s] = h[s]
        OBVIOUS
    <2> DEFINE x == Pick(s)
    <2>1. s # {} /\ x \in s
        BY <1>1, FS_EmptySet DEF Pick
    <2>2. Cardinality(s \ {x}) = n
        <3>1. Cardinality(s \ {x}) = Cardinality(s) - 1
            BY <1>1, <2>1, FS_RemoveElement, Zenon
        <3>. QED  BY <3>1
    <2>3. g[s \ {x}] = h[s \ {x}]
        BY <1>3, <2>2, Zenon
    <2>4. g[s] = f[x] + g[s \ {x}] /\ h[s] = f[x] + h[s \ {x}]
        <3>1. s \in SUBSET S
            BY Zenon
        <3>. QED  BY <2>1, <3>1, Zenon DEF Sums
    <2>. QED  BY <2>3, <2>4, Zenon
<1>4. Nat \subseteq B
    <2>. HIDE DEF B
    <2>. QED  BY <1>2, <1>3, NatSetInduction, Zenon
<1>. QED  BY <1>1, <1>4, Zenon

\* Every finite set can be summed over.
LEMMA SumsExist ==
    ASSUME NEW f, NEW S, IsFiniteSet(S)
    PROVE  \E g : Sums(g, f, S)
<1> DEFINE Up(n) == {s \in SUBSET S : Cardinality(s) <= n}
           Part(g, n) == g = [s \in Up(n) |-> IF s = {} THEN 0
                                               ELSE f[Pick(s)] + g[s \ {Pick(s)}]]
           B == {n \in Nat : \E g : Part(g, n)}
<1>1. \A s \in SUBSET S : IsFiniteSet(s) /\ Cardinality(s) \in Nat
    BY FS_Subset, FS_CardinalityType, Zenon
<1>2. 0 \in B
    <2>1. \A s \in Up(0) : s = {}
        BY <1>1, FS_EmptySet
    <2>2. Part([s \in Up(0) |-> 0], 0)
        BY <2>1, Zenon
    <2>. QED  BY <2>2, Zenon
<1>3. ASSUME NEW n \in Nat, n \in B PROVE n + 1 \in B
    <2>1. PICK g : Part(g, n)
        BY <1>3, Zenon
    <2> DEFINE h == [s \in Up(n + 1) |-> IF s = {} THEN 0
                                         ELSE f[Pick(s)] + g[s \ {Pick(s)}]]
    <2>2. ASSUME NEW s \in Up(n + 1), s # {} PROVE h[s \ {Pick(s)}] = g[s \ {Pick(s)}]
        <3> DEFINE t == s \ {Pick(s)}
        <3>1. Pick(s) \in s /\ IsFiniteSet(s) /\ Cardinality(s) \in Nat
            BY <1>1, <2>2, Zenon DEF Pick
        <3>2. Cardinality(t) = Cardinality(s) - 1
            BY <3>1, FS_RemoveElement, Zenon
        <3>3. t \in Up(n) /\ t \in Up(n + 1)
            BY <3>1, <3>2, <1>1
        <3>. HIDE DEF t, Up
        <3>4. g[t] = IF t = {} THEN 0 ELSE f[Pick(t)] + g[t \ {Pick(t)}]
            BY <2>1, <3>3, Zenon
        <3>5. h[t] = IF t = {} THEN 0 ELSE f[Pick(t)] + g[t \ {Pick(t)}]
            BY <3>3, Zenon
        <3>6. h[t] = g[t]
            BY <3>4, <3>5, Zenon
        <3>. QED  BY <3>6, Zenon DEF t
    <2>3. Part(h, n + 1)
        <3>. HIDE DEF Up
        <3>. QED  BY <2>2, Zenon
    <2>. HIDE DEF h, Part
    <2>. QED  BY <2>3
<1>4. Cardinality(S) \in B
    <2>1. Cardinality(S) \in Nat
        BY FS_CardinalityType, Zenon
    <2>. HIDE DEF B
    <2>. QED  BY <1>2, <1>3, <2>1, NatSetInduction, Zenon
<1>5. Up(Cardinality(S)) = SUBSET S
    BY <1>1, FS_Subset, Zenon
<1>6. PICK g : Part(g, Cardinality(S))
    BY <1>4, Zenon
<1>7. Sums(g, f, S)
    <2>. HIDE DEF Up
    <2>. QED  BY <1>5, <1>6, Zenon DEF Sums
<1>. QED  BY <1>7, Zenon

-----------------------------------------------------------------------------
\* The sum over no element, and over one that Pick takes first.
LEMMA SumUnfold ==
    ASSUME NEW f, NEW S, IsFiniteSet(S)
    PROVE  /\ S = {} => SumFunctionOnSet(f, S) = 0
           /\ S # {} => /\ Pick(S) \in S
                        /\ SumFunctionOnSet(f, S)
                              = f[Pick(S)] + SumFunctionOnSet(f, S \ {Pick(S)})
<1> DEFINE It(T) == CHOOSE g : Sums(g, f, T)
<1>1. \A T \in SUBSET S : Sums(It(T), f, T)
    <2>. SUFFICES ASSUME NEW T \in SUBSET S PROVE Sums(It(T), f, T)
        BY Zenon
    <2>1. \E g : Sums(g, f, T)
        BY FS_Subset, SumsExist, Zenon
    <2>. QED  BY <2>1, Zenon
<1>2. \A T \in SUBSET S : SumFunctionOnSet(f, T) = It(T)[T]
    BY SumIsChosen, Zenon
<1>3. \A T \in SUBSET S : It(S)[T] = It(T)[T]
    <2>. SUFFICES ASSUME NEW T \in SUBSET S PROVE It(S)[T] = It(T)[T]
        BY Zenon
    <2>1. Sums(It(S), f, S) /\ Sums(It(T), f, T)
        BY <1>1, Zenon
    <2>. HIDE DEF It
    <2>. QED  BY <2>1, SumsAgree
<1>. HIDE DEF It
<1>4. S = {} => It(S)[S] = 0
    BY <1>1, Zenon DEF Sums
<1>5. S # {} => It(S)[S] = f[Pick(S)] + It(S)[S \ {Pick(S)}]
    BY <1>1, Zenon DEF Sums
<1>6. S # {} => Pick(S) \in S
    BY Zenon DEF Pick
<1>7. S \ {Pick(S)} \in SUBSET S /\ S \in SUBSET S
    BY Zenon
<1>8. SumFunctionOnSet(f, S \ {Pick(S)}) = It(S)[S \ {Pick(S)}]
    BY <1>2, <1>3, <1>7, Zenon
<1>9. SumFunctionOnSet(f, S) = It(S)[S]
    BY <1>2, <1>7, Zenon
<1>. QED  BY <1>4, <1>5, <1>6, <1>8, <1>9, Zenon

\* A sum of integers is an integer.
LEMMA SumInt ==
    ASSUME NEW S, IsFiniteSet(S), NEW f, \A x \in S : f[x] \in Int
    PROVE  \A T \in SUBSET S : SumFunctionOnSet(f, T) \in Int
<1> DEFINE B == {n \in Nat : \A T \in SUBSET S :
                    Cardinality(T) = n => SumFunctionOnSet(f, T) \in Int}
<1>1. \A T \in SUBSET S : IsFiniteSet(T) /\ Cardinality(T) \in Nat
    BY FS_Subset, FS_CardinalityType, Zenon
<1>2. 0 \in B
    <2>. SUFFICES ASSUME NEW T \in SUBSET S, Cardinality(T) = 0
                  PROVE  SumFunctionOnSet(f, T) \in Int
        BY Zenon
    <2>1. IsFiniteSet(T) /\ T = {}
        BY <1>1, FS_EmptySet, Zenon
    <2>2. SumFunctionOnSet(f, T) = 0
        BY <2>1, SumUnfold, Zenon
    <2>. QED  BY <2>2
<1>3. ASSUME NEW n \in Nat, n \in B PROVE n + 1 \in B
    <2>. SUFFICES ASSUME NEW T \in SUBSET S, Cardinality(T) = n + 1
                  PROVE  SumFunctionOnSet(f, T) \in Int
        OBVIOUS
    <2> DEFINE x == Pick(T)
    <2>1. T # {} /\ IsFiniteSet(T)
        BY <1>1, FS_EmptySet
    <2>2. x \in T /\ SumFunctionOnSet(f, T) = f[x] + SumFunctionOnSet(f, T \ {x})
        BY <2>1, SumUnfold, Zenon
    <2>. HIDE DEF x
    <2>3. Cardinality(T \ {x}) = Cardinality(T) - 1
        BY <2>1, <2>2, FS_RemoveElement, Zenon
    <2>4. Cardinality(T \ {x}) = n /\ T \ {x} \in SUBSET S /\ f[x] \in Int
        BY <2>2, <2>3
    <2>5. SumFunctionOnSet(f, T \ {x}) \in Int
        BY <1>3, <2>4, Zenon
    <2>. QED  BY <2>2, <2>4, <2>5
<1>4. Nat \subseteq B
    <2>. HIDE DEF B
    <2>. QED  BY <1>2, <1>3, NatSetInduction, Zenon
<1>. QED  BY <1>1, <1>4, Zenon

\* Any element can be taken out first.
LEMMA SumRemove ==
    ASSUME NEW S, IsFiniteSet(S), NEW f, \A x \in S : f[x] \in Int
    PROVE  \A x \in S : SumFunctionOnSet(f, S) = f[x] + SumFunctionOnSet(f, S \ {x})
<1> DEFINE Out(T) == \A x \in T :
                        SumFunctionOnSet(f, T) = f[x] + SumFunctionOnSet(f, T \ {x})
           B == {n \in Nat : \A T \in SUBSET S : Cardinality(T) = n => Out(T)}
<1>1. \A T \in SUBSET S : IsFiniteSet(T) /\ Cardinality(T) \in Nat
    BY FS_Subset, FS_CardinalityType, Zenon
<1>2. 0 \in B
    BY <1>1, FS_EmptySet, Zenon
<1>3. ASSUME NEW n \in Nat, n \in B PROVE n + 1 \in B
    <2>. SUFFICES ASSUME NEW T \in SUBSET S, Cardinality(T) = n + 1, NEW x \in T
                  PROVE  SumFunctionOnSet(f, T) = f[x] + SumFunctionOnSet(f, T \ {x})
        OBVIOUS
    <2> DEFINE p == Pick(T)
    <2>1. IsFiniteSet(T) /\ T # {}
        BY <1>1, Zenon
    <2>2. p \in T /\ SumFunctionOnSet(f, T) = f[p] + SumFunctionOnSet(f, T \ {p})
        BY <2>1, SumUnfold, Zenon
    <2>. HIDE DEF p
    <2>3. CASE x = p
        BY <2>2, <2>3, Zenon
    <2>4. CASE x # p
        <3> DEFINE U == (T \ {p}) \ {x}
        <3>1. \A y \in T : Cardinality(T \ {y}) = n
            <4>. SUFFICES ASSUME NEW y \in T PROVE Cardinality(T \ {y}) = n
                BY Zenon
            <4>1. Cardinality(T \ {y}) = Cardinality(T) - 1
                BY <2>1, FS_RemoveElement, Zenon
            <4>. QED  BY <4>1
        <3>2. Out(T \ {p}) /\ Out(T \ {x})
            BY <1>3, <2>2, <3>1, Zenon
        <3>3. SumFunctionOnSet(f, T \ {p}) = f[x] + SumFunctionOnSet(f, U)
            BY <2>4, <3>2, Zenon
        <3>4. SumFunctionOnSet(f, T \ {x}) = f[p] + SumFunctionOnSet(f, U)
            <4>1. p \in T \ {x} /\ (T \ {x}) \ {p} = U
                BY <2>2, <2>4, Zenon
            <4>. HIDE DEF U
            <4>. QED  BY <3>2, <4>1, Zenon
        <3>5. SumFunctionOnSet(f, U) \in Int /\ f[x] \in Int /\ f[p] \in Int
            BY <2>2, SumInt, Zenon
        <3>. HIDE DEF U
        <3>. QED  BY <2>2, <3>3, <3>4, <3>5
    <2>. QED  BY <2>3, <2>4, Zenon
<1>4. Nat \subseteq B
    <2>. HIDE DEF B
    <2>. QED  BY <1>2, <1>3, NatSetInduction, Zenon
<1>. QED  BY <1>1, <1>4, Zenon

\* One more element adds its summand.
LEMMA SumAdd ==
    ASSUME NEW S, IsFiniteSet(S), NEW f, NEW x, x \notin S,
           \A y \in S \cup {x} : f[y] \in Int
    PROVE  SumFunctionOnSet(f, S \cup {x}) = f[x] + SumFunctionOnSet(f, S)
<1>1. IsFiniteSet(S \cup {x}) /\ x \in S \cup {x} /\ (S \cup {x}) \ {x} = S
    BY FS_AddElement, Zenon
<1>. QED  BY <1>1, SumRemove

\* Sums are monotone in the summands.
LEMMA SumLeq ==
    ASSUME NEW S, IsFiniteSet(S), NEW f, NEW g,
           \A x \in S : f[x] \in Int /\ g[x] \in Int /\ f[x] <= g[x]
    PROVE  SumFunctionOnSet(f, S) <= SumFunctionOnSet(g, S)
<1> DEFINE F == {T \in SUBSET S : SumFunctionOnSet(f, T) <= SumFunctionOnSet(g, T)}
<1>1. \A T \in SUBSET S : IsFiniteSet(T)
    BY FS_Subset, Zenon
<1>2. {} \in F
    <2>1. SumFunctionOnSet(f, {}) = 0 /\ SumFunctionOnSet(g, {}) = 0
        BY SumUnfold, FS_EmptySet, Zenon
    <2>. QED  BY <2>1
<1>3. ASSUME NEW T \in SUBSET S, NEW x \in S \ T, T \in F PROVE T \cup {x} \in F
    <2>1. SumFunctionOnSet(f, T \cup {x}) = f[x] + SumFunctionOnSet(f, T)
        BY <1>1, SumAdd, Zenon
    <2>2. SumFunctionOnSet(g, T \cup {x}) = g[x] + SumFunctionOnSet(g, T)
        BY <1>1, SumAdd, Zenon
    <2>3. SumFunctionOnSet(f, T) \in Int /\ SumFunctionOnSet(g, T) \in Int
        BY SumInt, Zenon
    <2>. QED  BY <1>3, <2>1, <2>2, <2>3
<1>4. S \in F
    <2>. HIDE DEF F
    <2>. QED  BY <1>2, <1>3, FiniteSetInduction, Zenon
<1>. QED  BY <1>4, Zenon

\* Only the summands matter.
LEMMA SumSame ==
    ASSUME NEW S, IsFiniteSet(S), NEW f, NEW g,
           \A x \in S : f[x] \in Int /\ f[x] = g[x]
    PROVE  SumFunctionOnSet(f, S) = SumFunctionOnSet(g, S)
<1>1. SumFunctionOnSet(f, S) <= SumFunctionOnSet(g, S)
    BY SumLeq
<1>2. SumFunctionOnSet(g, S) <= SumFunctionOnSet(f, S)
    BY SumLeq
<1>3. SumFunctionOnSet(f, S) \in Int /\ SumFunctionOnSet(g, S) \in Int
    BY SumInt, Zenon
<1>. QED  BY <1>1, <1>2, <1>3

\* A summand that changes moves the sum by as much.
LEMMA SumChange ==
    ASSUME NEW S, IsFiniteSet(S), NEW f, NEW g, NEW k \in S,
           \A x \in S : f[x] \in Int /\ g[x] \in Int,
           \A x \in S \ {k} : f[x] = g[x]
    PROVE  SumFunctionOnSet(g, S) = SumFunctionOnSet(f, S) - f[k] + g[k]
<1>1. IsFiniteSet(S \ {k})
    BY FS_Subset, Zenon
<1>2. SumFunctionOnSet(f, S \ {k}) = SumFunctionOnSet(g, S \ {k})
    BY <1>1, SumSame, Zenon
<1>3. SumFunctionOnSet(f, S) = f[k] + SumFunctionOnSet(f, S \ {k})
    BY SumRemove, Zenon
<1>4. SumFunctionOnSet(g, S) = g[k] + SumFunctionOnSet(g, S \ {k})
    BY SumRemove, Zenon
<1>5. SumFunctionOnSet(f, S \ {k}) \in Int
    BY SumInt, Zenon
<1>. QED  BY <1>2, <1>3, <1>4, <1>5

\* Summands that are not negative only add, and those that are 0 may be left out.
LEMMA SumSubset ==
    ASSUME NEW S, IsFiniteSet(S), NEW f, NEW T \in SUBSET S,
           \A x \in S : f[x] \in Int, \A x \in S \ T : f[x] >= 0
    PROVE  /\ SumFunctionOnSet(f, T) <= SumFunctionOnSet(f, S)
           /\ (\A x \in S \ T : f[x] = 0) => SumFunctionOnSet(f, T) = SumFunctionOnSet(f, S)
<1> DEFINE Q(U) == /\ SumFunctionOnSet(f, T) <= SumFunctionOnSet(f, T \cup U)
                   /\ (\A x \in S \ T : f[x] = 0) =>
                         SumFunctionOnSet(f, T) = SumFunctionOnSet(f, T \cup U)
           F == {U \in SUBSET (S \ T) : Q(U)}
<1>1. \A U \in SUBSET S : IsFiniteSet(U) /\ SumFunctionOnSet(f, U) \in Int
    BY FS_Subset, SumInt, Zenon
<1>2. {} \in F
    <2>1. T \cup {} = T
        BY Zenon
    <2>2. Q({})
        <3>1. SumFunctionOnSet(f, T) \in Int
            BY <1>1, Zenon
        <3>. QED  BY <2>1, <3>1
    <2>. QED  BY <2>2, Zenon
<1>3. ASSUME NEW U \in SUBSET (S \ T), NEW x \in (S \ T) \ U, U \in F
      PROVE  U \cup {x} \in F
    <2>1. T \cup (U \cup {x}) = (T \cup U) \cup {x} /\ x \notin T \cup U
        BY Zenon
    <2>2. SumFunctionOnSet(f, (T \cup U) \cup {x}) = f[x] + SumFunctionOnSet(f, T \cup U)
        <3>1. IsFiniteSet(T \cup U)
            <4>1. T \cup U \in SUBSET S
                BY Zenon
            <4>. QED  BY <1>1, <4>1, Zenon
        <3>. QED  BY <2>1, <3>1, SumAdd, Zenon
    <2>3. SumFunctionOnSet(f, T \cup U) \in Int /\ SumFunctionOnSet(f, T) \in Int
        <3>1. T \cup U \in SUBSET S /\ T \in SUBSET S
            BY Zenon
        <3>. QED  BY <1>1, <3>1, Zenon
    <2>4. f[x] \in Int /\ f[x] >= 0
        BY Zenon
    <2>5. SumFunctionOnSet(f, T \cup (U \cup {x})) = f[x] + SumFunctionOnSet(f, T \cup U)
        BY <2>1, <2>2, Zenon
    <2>6. Q(U)
        BY <1>3, Zenon
    <2>7. SumFunctionOnSet(f, T) <= SumFunctionOnSet(f, T \cup (U \cup {x}))
        BY <2>3, <2>4, <2>5, <2>6
    <2>8. (\A y \in S \ T : f[y] = 0) =>
             SumFunctionOnSet(f, T) = SumFunctionOnSet(f, T \cup (U \cup {x}))
        BY <2>3, <2>5, <2>6
    <2>. QED  BY <2>7, <2>8, Zenon
<1>4. S \ T \in F
    <2>1. IsFiniteSet(S \ T)
        BY FS_Subset, Zenon
    <2>. HIDE DEF F
    <2>2. \A U \in SUBSET (S \ T) : \A x \in (S \ T) \ U : U \in F => U \cup {x} \in F
        BY <1>3, Zenon
    <2>3. SUBSET (S \ T) \subseteq F
        BY <1>2, <2>1, <2>2, FiniteSetInduction
    <2>. QED  BY <2>3, Zenon
<1>5. T \cup (S \ T) = S
    BY Zenon
<1>. QED  BY <1>4, <1>5, Zenon

\* A sum of naturals is a natural.
LEMMA SumNat ==
    ASSUME NEW S, IsFiniteSet(S), NEW f, \A x \in S : f[x] \in Nat
    PROVE  SumFunctionOnSet(f, S) \in Nat
<1>1. SumFunctionOnSet(f, {}) = 0
    BY SumUnfold, FS_EmptySet, Zenon
<1>2. SumFunctionOnSet(f, {}) <= SumFunctionOnSet(f, S)
    BY SumSubset
<1>3. SumFunctionOnSet(f, S) \in Int
    BY SumInt
<1>. QED  BY <1>1, <1>2, <1>3

-------------------------------------------------------------------------------
\* The inductive invariant, the steps of a call that leave the committed state
\* alone (they take locks, read, write to their own transaction, answer or give
\* up), and what a commit leaves to the other calls.

Discharges == {"settle", "partial", "finalize", "release"} \cup Captures

Rows == [status : {"none"} \cup Live \cup Terminal, amt : Nat, settled : Nat,
         exp : Nat, ttl : Nat]

Mems == [start : Nat, base : Int, verified : Int, credit : [Names -> Nat], done : BOOLEAN]

Shape ==
    /\ clock \in Nat /\ bal \in Int
    /\ resv \in [Names -> Rows]
    /\ IsFiniteSet(claims)
    /\ \A m \in claims : m.amt \in Nat /\ m.table \in {"receipts", "legs"}
    /\ idemLock = [k \in Names \cup OpKeys |-> idemLock[k]]
    /\ rowLock  = [r \in Names |-> rowLock[r]]
    /\ pc     = [c \in Clients |-> pc[c]]
    /\ call   = [c \in Clients |-> call[c]]
    /\ mem    \in [Clients -> Mems]
    /\ pend   = [c \in Clients |-> pend[c]]
    /\ result = [c \in Clients |-> result[c]]

\* A row has claims once it is no longer active, and a receipt ends it.
RowsSound ==
    \A r \in Names :
        /\ resv[r].settled <= resv[r].amt
        /\ resv[r].status = "none" => resv[r].amt = 0
        /\ resv[r].status \in {"none", "active"} => resv[r].settled = 0 /\ ClaimsOn(r) = {}
        /\ ReceiptsOf(r) # {} => resv[r].status \in Terminal

\* The places of each operation, and what its arguments are.
CallSound(c) ==
    \/ pc[c] = "idle"
    \/ /\ call[c].name \in Names /\ call[c].amt \in Nat /\ call[c].ttl \in Nat
       /\ \/ /\ call[c].op \in Reserves
             /\ call[c].key[1] = call[c].name
             /\ pc[c] \in {"verify", "credit", "lookup", "idem", "recheck", "balance", "base",
                           "held", "commit"}
          \/ /\ call[c].op \in Captures
             /\ call[c].key[1] \in OpKeys
             /\ resv[call[c].name].status # "none"
             /\ pc[c] \in {"idem", "balance", "row", "check", "apply", "charge", "commit"}
          \/ /\ call[c].op \in Discharges \ Captures
             /\ resv[call[c].name].status # "none"
             /\ call[c].op \in {"finalize", "release"} => call[c].amt = 0
             /\ pc[c] \in {"row", "check", "apply", "commit"}

\* The locks held at each place.
LocksHeld(c) ==
    /\ call[c].op \in Reserves /\ pc[c] \in {"recheck", "balance", "base", "held", "commit"}
          => idemLock[call[c].name] = c
    /\ call[c].op \in Captures
       /\ pc[c] \in {"balance", "row", "check", "apply", "charge", "commit"}
          => idemLock[call[c].key[1]] = c
    /\ call[c].op \in Reserves /\ pc[c] \in {"base", "held", "commit"} => balLock = c
    /\ call[c].op \in Captures /\ pc[c] \in {"row", "check", "apply", "charge", "commit"}
          => balLock = c
    /\ call[c].op \in Discharges /\ pc[c] \in {"check", "apply", "charge", "commit"}
          => rowLock[call[c].name] = c

\* What a call has read bounds what is there now: the credit of a reservation does not
\* exceed what has been released of it, and the base was read under the balance lock.
ReadsSound(c) ==
    /\ mem[c].start <= clock
    /\ call[c].op \in Reserves /\ pc[c] \in {"balance", "base", "held", "commit"}
          => resv[call[c].name].status = "none"
    /\ \A r \in Names : mem[c].credit[r] + Outstanding(resv[r]) <= resv[r].amt
    /\ pc[c] = "held" => mem[c].base <= bal

\* The uncommitted writes of a call.
WritesSound(c) ==
    /\ pc[c] \notin {"charge", "commit"} => pend[c] = NoWrite
    /\ pc[c] = "apply" => Allowed(c)
    /\ pc[c] = "commit" /\ call[c].op \in Reserves =>
          /\ pend[c].claim = {} /\ pend[c].row \in Rows
          /\ pend[c].row.status = "active"
          /\ pend[c].row.amt = call[c].amt /\ pend[c].row.settled = 0
    /\ pc[c] \in {"charge", "commit"} /\ call[c].op \in Discharges =>
          \/ pc[c] = "commit" /\ pend[c] = NoWrite
          \/ /\ Allowed(c)
             /\ pend[c] = [row |-> NewRow(c), claim |-> {NewClaim(c, Table(call[c].op))}]

\* No key is about to be claimed, or charged, twice.
KeysApart ==
    \A c \in Clients : \A m \in pend[c].claim :
        /\ \A n \in claims : n.key = m.key => n.table # m.table
        /\ \A d \in Clients \ {c} : \A n \in pend[d].claim : n.key = m.key => n.table # m.table
        /\ pc[c] = "commit" /\ m.charged => \A n \in claims : n.charged => n.key # m.key

\* A capture past its checks takes its amount, even if the reservation expires now.
Charging(c, r) ==
    /\ call[c].op \in Captures /\ call[c].name = r
    /\ pc[c] \in {"apply", "charge"} \/ (pc[c] = "commit" /\ pend[c] # NoWrite)

Hold(r) ==
    IF r \in Unexpired(clock) THEN Outstanding(resv[r])
    ELSE IF rowLock[r] \in Clients /\ Charging(rowLock[r], r) THEN call[rowLock[r]].amt
    ELSE 0

Holds == SumFunctionOnSet([r \in Names |-> Hold(r)], Names)

\* What may still be taken is covered, a reservation about to be committed included.
Covered ==
    /\ Holds <= bal
    /\ \A c \in Clients : pc[c] = "commit" /\ call[c].op \in Reserves =>
          Holds + call[c].amt <= bal

\* A call that was carried out before finds its row or claim.
RetriesSound(c) ==
    mem[c].done /\ pc[c] # "idle" =>
        /\ Done(call[c])
        /\ call[c].op \in Reserves => pc[c] \in {"verify", "credit", "lookup"}
        /\ call[c].op \in Discharges => pc[c] \notin {"apply", "charge"}

ClientSound(c) ==
    CallSound(c) /\ LocksHeld(c) /\ ReadsSound(c) /\ WritesSound(c) /\ RetriesSound(c)

ReserverInv ==
    /\ Shape /\ RowsSound /\ AppliedOnce /\ KeysApart /\ Covered
    /\ \A c \in Clients : ClientSound(c)

-----------------------------------------------------------------------------
(* What a step of client d leaves to the others.                           *)

Kept(lock, new, d) == lock # new => lock \in {NoClient, d} /\ new \in {NoClient, d}

Others(d) ==
    /\ \A c \in Clients \ {d} : /\ pc'[c] = pc[c] /\ call'[c] = call[c]
                                /\ mem'[c] = mem[c] /\ pend'[c] = pend[c]
    /\ \A k \in Names \cup OpKeys : Kept(idemLock[k], idemLock'[k], d)
    /\ \A r \in Names : Kept(rowLock[r], rowLock'[r], d)
    /\ Kept(balLock, balLock', d)

\* A row has nothing more outstanding than its amount.
LEMMA OutstandingNat ==
    ASSUME NEW row \in Rows, row.settled <= row.amt
    PROVE  Outstanding(row) \in Nat /\ Outstanding(row) <= row.amt
BY DEF Rows, Outstanding

\* The end of a transaction frees d's locks and leaves the others theirs.
LEMMA EndOthers ==
    ASSUME Shape, NEW d \in Clients, NEW res, End(d, res)
    PROVE  Others(d) /\ pc'[d] = "idle" /\ call'[d] = NoCall /\ mem'[d] = NoMem
           /\ pend'[d] = NoWrite
BY Zenon DEF Shape, End, Others, Kept, Goto

-----------------------------------------------------------------------------
(* Steps that write nothing to the database.                               *)

\* A call past its checks took its amount before, or finds the reservation unexpired.
StillCharging(d) ==
    \A r \in Names : Charging(d, r)' /\ rowLock'[r] = d =>
        \/ r \in Unexpired(clock)
        \/ Charging(d, r) /\ rowLock[r] = d /\ call'[d] = call[d]

\* A step that leaves the committed state alone keeps every part of the invariant but what
\* is covered, and of that it only lets go.
CalmStep ==
    /\ Shape' /\ RowsSound' /\ AppliedOnce' /\ KeysApart'
    /\ \A c \in Clients : ClientSound(c)'
    /\ bal' = bal
    /\ \A r \in Names : Hold(r) \in Nat /\ Hold(r)' \in Nat /\ Hold(r)' <= Hold(r)

\* ... and readies no reservation.
NoneReadied ==
    \A c \in Clients : pc'[c] = "commit" /\ call'[c].op \in Reserves =>
        pc[c] = "commit" /\ call'[c] = call[c]

\* What may still be taken is never negative.
LEMMA HoldNat ==
    ASSUME ReserverInv
    PROVE  \A r \in Names : Hold(r) \in Nat
<1>. SUFFICES ASSUME NEW r \in Names PROVE Hold(r) \in Nat
    BY Zenon
<1>1. Outstanding(resv[r]) \in Nat
    BY OutstandingNat, Zenon DEF ReserverInv, Shape, RowsSound
<1>2. ASSUME NEW c \in Clients, Charging(c, r) PROVE call[c].amt \in Nat
    <2>1. pc[c] # "idle"
        BY <1>2, Zenon DEF Charging
    <2>. QED  BY <2>1, Zenon DEF ReserverInv, ClientSound, CallSound
<1>. QED  BY <1>1, <1>2, Zenon DEF Hold

\* A client that does not move keeps what it knows while the database stands still.
LEMMA StillSound ==
    ASSUME ReserverInv, NEW d \in Clients, Others(d), UNCHANGED <<clock, dbVars>>,
           NEW c \in Clients \ {d}
    PROVE  ClientSound(c)'
<1>0. c \in Clients /\ c # NoClient /\ c # d /\ ClientSound(c)
    BY ReserverAssumption, Zenon DEF ReserverInv
<1>1. /\ pc'[c] = pc[c] /\ call'[c] = call[c] /\ mem'[c] = mem[c] /\ pend'[c] = pend[c]
      /\ clock' = clock /\ bal' = bal /\ resv' = resv /\ claims' = claims
    BY Zenon DEF Others, dbVars
<1>2. CallSound(c)'
    BY <1>0, <1>1, Zenon DEF ClientSound, CallSound
<1>3. LocksHeld(c)'
    <2>1. \A k \in Names \cup OpKeys : idemLock[k] = c => idemLock'[k] = c
        BY <1>0, Zenon DEF Others, Kept
    <2>2. \A r \in Names : rowLock[r] = c => rowLock'[r] = c
        BY <1>0, Zenon DEF Others, Kept
    <2>3. balLock = c => balLock' = c
        BY <1>0, Zenon DEF Others, Kept
    <2>4. pc[c] = "idle" \/ (call[c].name \in Names /\
             (call[c].op \in Captures => call[c].key[1] \in OpKeys))
        BY <1>0, Zenon DEF ClientSound, CallSound, Reserves, Captures, Discharges
    <2>. QED  BY <1>0, <1>1, <2>1, <2>2, <2>3, <2>4, Zenon DEF ClientSound, LocksHeld
<1>4. ReadsSound(c)'
    BY <1>0, <1>1, Zenon DEF ClientSound, ReadsSound
<1>5. Allowed(c)' = Allowed(c) /\ NewRow(c)' = NewRow(c)
      /\ NewClaim(c, Table(call[c].op))' = NewClaim(c, Table(call[c].op))
    BY <1>1, Zenon DEF Allowed, SettleAllowed, PartialAllowed, FinalizeAllowed, ReleaseAllowed, Row,
                NewRow, NewClaim
<1>6. WritesSound(c)'
    BY <1>0, <1>1, <1>5, ZenonT(30) DEF ClientSound, WritesSound, NewRow, NewClaim, Row
<1>7. RetriesSound(c)'
    BY <1>0, <1>1, Zenon DEF ClientSound, RetriesSound, Done, Existing
<1>. QED  BY <1>2, <1>3, <1>4, <1>6, <1>7, Zenon DEF ClientSound

\* Nothing more can be taken after a step that leaves the database alone.
LEMMA CalmHolds ==
    ASSUME ReserverInv, NEW d \in Clients, Others(d), UNCHANGED <<clock, dbVars>>,
           StillCharging(d), ClientSound(d)', rowLock' = [r \in Names |-> rowLock'[r]]
    PROVE  \A r \in Names : Hold(r) \in Nat /\ Hold(r)' \in Nat /\ Hold(r)' <= Hold(r)
<1>0. /\ clock' = clock /\ resv' = resv /\ NoClient \notin Clients
      /\ \A c \in Clients : ClientSound(c) /\ ClientSound(c)'
    BY StillSound, ReserverAssumption, Zenon DEF dbVars, ReserverInv
<1>1. \A r \in Names : Hold(r) \in Nat
    BY HoldNat, Zenon
<1>2. ASSUME NEW r \in Names PROVE Hold(r)' \in Nat /\ Hold(r)' <= Hold(r)
    <2>1. Unexpired(clock)' = Unexpired(clock)
        BY <1>0, Zenon DEF Unexpired
    <2>2. CASE r \in Unexpired(clock)
        BY <1>0, <1>1, <2>1, <2>2 DEF Hold
    <2>3. CASE r \notin Unexpired(clock) /\ rowLock'[r] \notin Clients
        BY <1>1, <2>1, <2>3 DEF Hold
    <2>4. ASSUME r \notin Unexpired(clock), NEW c \in Clients \ {d}, rowLock'[r] = c
          PROVE  Hold(r)' \in Nat /\ Hold(r)' <= Hold(r)
        <3>1. rowLock[r] = c
            BY <1>0, <2>4, Zenon DEF Others, Kept
        <3>2. Charging(c, r)' = Charging(c, r) /\ call'[c] = call[c]
            BY Zenon DEF Others, Charging
        <3>3. Hold(r)' = IF Charging(c, r)' THEN call'[c].amt ELSE 0
            BY <2>1, <2>4, Zenon DEF Hold, Charging
        <3>4. Hold(r) = IF Charging(c, r) THEN call[c].amt ELSE 0
            BY <2>4, <3>1, Zenon DEF Hold
        <3>. QED  BY <1>1, <3>2, <3>3, <3>4
    <2>5. CASE r \notin Unexpired(clock) /\ rowLock'[r] = d
        <3>1. Hold(r)' = IF Charging(d, r)' THEN call'[d].amt ELSE 0
            BY <2>1, <2>5, Zenon DEF Hold, Charging
        <3>2. CASE Charging(d, r)'
            <4>1. Charging(d, r) /\ rowLock[r] = d /\ call'[d] = call[d]
                BY <2>5, <3>2, Zenon DEF StillCharging
            <4>2. Hold(r) = call[d].amt
                BY <2>5, <4>1, Zenon DEF Hold
            <4>. QED  BY <1>1, <3>1, <3>2, <4>1, <4>2
        <3>. QED  BY <1>1, <3>1, <3>2
    <2>. QED  BY <2>2, <2>3, <2>4, <2>5, Zenon
<1>. QED  BY <1>1, <1>2, Zenon

\* A step that leaves the database alone is calm when d's own part and the keys in flight
\* are sound.
LEMMA CalmInv ==
    ASSUME ReserverInv, NEW d \in Clients, Others(d), UNCHANGED <<clock, dbVars>>,
           StillCharging(d), ClientSound(d)', KeysApart', Shape'
    PROVE  CalmStep
<1>1. \A r \in Names : Hold(r) \in Nat /\ Hold(r)' \in Nat /\ Hold(r)' <= Hold(r)
    BY CalmHolds, Zenon DEF Shape
<1>2. \A c \in Clients : ClientSound(c)'
    BY StillSound, Zenon
<1>3. RowsSound' /\ AppliedOnce'
    BY Zenon DEF ReserverInv, RowsSound, AppliedOnce, dbVars, ClaimsOn, ReceiptsOf, LegsOf
<1>. QED  BY <1>1, <1>2, <1>3, Zenon DEF CalmStep, dbVars

\* Only a call that reaches COMMIT can ready a reservation.
LEMMA OthersReadyNone ==
    ASSUME NEW d \in Clients, Others(d),
           pc'[d] # "commit" \/ call'[d].op \notin Reserves
    PROVE  NoneReadied
BY Zenon DEF Others, NoneReadied

\* No key comes into flight without Apply, and none gets closer to its commit.
LEMMA KeysStill ==
    ASSUME ReserverInv, NEW d \in Clients, Others(d), claims' = claims,
           pend'[d] \in {pend[d], NoWrite},
           pc'[d] = "commit" => pc[d] = "commit" \/ pend'[d] = NoWrite
    PROVE  KeysApart'
<1>1. \A c \in Clients : pend'[c] = pend[c] \/ pend'[c].claim = {}
    BY DEF Others, NoWrite
<1>2. \A c \in Clients : pc'[c] = "commit" => pc[c] = "commit" \/ pend'[c].claim = {}
    BY DEF Others, NoWrite
<1>. QED  BY <1>1, <1>2, ZenonT(30) DEF ReserverInv, KeysApart

\* An answer, or the death of a transaction.
LEMMA AnswerInv ==
    ASSUME ReserverInv, NEW d \in Clients, NEW res, End(d, res), UNCHANGED <<clock, dbVars>>
    PROVE  CalmStep /\ NoneReadied
<1>1. Others(d) /\ pc'[d] = "idle" /\ call'[d] = NoCall /\ mem'[d] = NoMem
      /\ pend'[d] = NoWrite
    BY EndOthers, Zenon DEF ReserverInv
<1>2. Shape'
    <2>1. NoMem \in Mems
        BY DEF NoMem, Mems
    <2>. QED  BY <2>1, Zenon DEF ReserverInv, Shape, End, Goto, dbVars
<1>3. StillCharging(d)
    BY <1>1, Zenon DEF StillCharging, Charging
<1>4. KeysApart'
    BY <1>1, KeysStill, Zenon DEF dbVars
<1>5. ClientSound(d)'
    <2>1. ReadsSound(d)'
        <3>1. \A r \in Names : Outstanding(resv[r]) \in Nat /\ Outstanding(resv[r]) <= resv[r].amt
            BY OutstandingNat, Zenon DEF ReserverInv, Shape, RowsSound
        <3>. QED  BY <1>1, <3>1 DEF ReadsSound, NoMem, NoCall, Reserves, ReserverInv, Shape, Rows,
                     dbVars
    <2>. QED  BY <1>1, <2>1, Zenon DEF ClientSound, CallSound, LocksHeld, WritesSound, RetriesSound,
                  NoCall, Reserves, Captures, Discharges
<1>. QED  BY <1>1, <1>2, <1>3, <1>4, <1>5, CalmInv, OthersReadyNone, Zenon

\* The arguments and the first place of a call.
Starts(q, l) ==
    /\ q.name \in Names /\ q.amt \in Nat /\ q.ttl \in Nat
    /\ \/ q.op \in Reserves /\ q.key[1] = q.name /\ l \in {"verify", "lookup"}
       \/ q.op \in Captures /\ q.key[1] \in OpKeys /\ resv[q.name].status # "none" /\ l = "idem"
       \/ /\ q.op \in Discharges \ Captures /\ resv[q.name].status # "none" /\ l = "row"
          /\ q.op \in {"finalize", "release"} => q.amt = 0

\* The memory of a call that has just begun.
LEMMA FreshMem ==
    ASSUME NEW b \in BOOLEAN, NEW s \in Nat
    PROVE  [NoMem EXCEPT !.done = b, !.start = s] \in Mems
<1>1. NoMem \in Mems
    BY DEF NoMem, Mems
<1>2. [NoMem EXCEPT !.done = b] \in Mems
    BY <1>1, Zenon DEF Mems
<1>3. [[NoMem EXCEPT !.done = b] EXCEPT !.start = s] \in Mems
    BY <1>2, Zenon DEF Mems
<1>4. [NoMem EXCEPT !.done = b, !.start = s] = [[NoMem EXCEPT !.done = b] EXCEPT !.start = s]
    BY Zenon
<1>. QED  BY <1>3, <1>4, Zenon

\* A call begins.
LEMMA CallInv ==
    ASSUME ReserverInv, NEW d \in Clients, NEW q, NEW l, Call(d, q, l), Starts(q, l)
    PROVE  CalmStep /\ NoneReadied
<1>1. Others(d) /\ pc'[d] = l /\ call'[d] = q /\ pend'[d] = pend[d] /\ pend[d] = NoWrite
    BY Zenon DEF ReserverInv, Shape, ClientSound, WritesSound, Call, Learn, Goto, Others, Kept, lockVars
<1>2. mem' = [mem EXCEPT ![d] = [NoMem EXCEPT !.done = Done(q), !.start = clock]]
    BY Zenon DEF Call, Learn
<1>3. mem'[d].start = clock /\ mem'[d].credit = [r \in Names |-> 0] /\ mem'[d].done = Done(q)
    BY <1>2, Zenon DEF NoMem, ReserverInv, Shape
<1>4. mem' \in [Clients -> Mems]
    <2>1. Done(q) \in BOOLEAN
        BY Zenon DEF Done
    <2>2. [NoMem EXCEPT !.done = Done(q), !.start = clock] \in Mems
        BY <2>1, FreshMem, Zenon DEF ReserverInv, Shape
    <2>. QED  BY <1>2, <2>2, Zenon DEF ReserverInv, Shape
<1>5. Shape'
    BY <1>4, Zenon DEF ReserverInv, Shape, Call, Goto, dbVars, lockVars
<1>6. StillCharging(d)
    BY <1>1, Zenon DEF StillCharging, Charging, Starts
<1>7. KeysApart'
    BY <1>1, KeysStill, Zenon DEF Call, dbVars
<1>8. ClientSound(d)'
    <2>1. CallSound(d)'
        BY <1>1, Zenon DEF CallSound, Starts, Call, dbVars
    <2>2. LocksHeld(d)' /\ WritesSound(d)'
        BY <1>1, Zenon DEF Starts, LocksHeld, WritesSound
    <2>3. ReadsSound(d)'
        <3>1. \A r \in Names : Outstanding(resv[r]) \in Nat /\ Outstanding(resv[r]) <= resv[r].amt
            BY OutstandingNat, Zenon DEF ReserverInv, Shape, RowsSound
        <3>. QED  BY <1>1, <1>3, <3>1 DEF ReadsSound, Starts, Call, dbVars, ReserverInv, Shape, Rows
    <2>4. RetriesSound(d)'
        <3>1. Done(q)' = Done(q)
            BY Zenon DEF Done, Existing, Call, dbVars
        <3>2. mem'[d].done => Done(call[d])'
            BY <1>1, <1>3, <3>1, Zenon DEF Done, Existing, Call, dbVars
        <3>. QED  BY <1>1, <3>2, Zenon DEF RetriesSound, Starts, Reserves, Captures, Discharges
    <2>. QED  BY <2>1, <2>2, <2>3, <2>4, Zenon DEF ClientSound
<1>9. l # "commit"
    BY Zenon DEF Starts
<1>. QED  BY <1>1, <1>5, <1>6, <1>7, <1>8, <1>9, CalmInv, OthersReadyNone, Zenon DEF Call

\* Clients and sweeps begin calls of these kinds only.
LEMMA BeginInv ==
    ASSUME ReserverInv, NEW d \in Clients, Begin(d) \/ Sweep(d)
    PROVE  CalmStep /\ NoneReadied
<1>0. Amounts \subseteq Nat /\ 0 \in Nat /\ TTLs \subseteq Nat
    BY ReserverAssumption, Zenon
<1>1. CASE Reserve(d)
    <2>1. PICK op \in Ops \cap Reserves, r \in Names, a \in Amounts, t \in TTLs :
             Call(d, [op |-> op, name |-> r, key |-> <<r>>, amt |-> a, ttl |-> t],
                  IF op = "gated" THEN "verify" ELSE "lookup")
        BY <1>1, Zenon DEF Reserve
    <2>2. Starts([op |-> op, name |-> r, key |-> <<r>>, amt |-> a, ttl |-> t],
                 IF op = "gated" THEN "verify" ELSE "lookup")
        BY <1>0, Zenon DEF Starts
    <2>. QED  BY <2>1, <2>2, CallInv, Zenon
<1>2. ASSUME NEW op \in Discharges, NEW amts \in SUBSET Nat,
             op \in {"finalize", "release"} => amts = {0},
             Discharge(d, op, amts, IF op \in Captures THEN "idem" ELSE "row")
      PROVE  CalmStep /\ NoneReadied
    <2> DEFINE l == IF op \in Captures THEN "idem" ELSE "row"
    <2>1. PICK r \in Names, k \in OpKeys, a \in amts :
             /\ resv[r].status # "none"
             /\ Call(d, [op |-> op, name |-> r, key |-> Derived(op, k), amt |-> a, ttl |-> 0], l)
        BY <1>2, Zenon DEF Discharge
    <2>2. Starts([op |-> op, name |-> r, key |-> Derived(op, k), amt |-> a, ttl |-> 0], l)
        BY <1>0, <1>2, <2>1, Zenon DEF Starts, Derived
    <2>. HIDE DEF l
    <2>. QED  BY <2>1, <2>2, CallInv, Zenon
<1>3. CASE Settle(d) \/ SettlePartial(d) \/ FinalizeSettlement(d) \/ Release(d)
    <2>1. PICK op \in Discharges \ Captures, amts \in SUBSET Nat :
             Discharge(d, op, amts, "row") /\ (op \in {"finalize", "release"} => amts = {0})
        BY <1>0, <1>3 DEF Settle, SettlePartial, FinalizeSettlement, Release, Discharges, Captures
    <2>. QED  BY <1>2, <2>1, Zenon
<1>4. CASE Capture(d)
    <2>1. PICK op \in Captures : Discharge(d, op, Amounts, "idem")
        BY <1>4, Zenon DEF Capture
    <2>. QED  BY <1>0, <1>2, <2>1, Zenon DEF Discharges, Captures
<1>5. CASE Sweep(d)
    <2>1. PICK r \in Names :
             /\ r \in ExpiredReservations
             /\ LET op == IF resv[r].status = "settling" THEN "finalize" ELSE "release"
                IN  Call(d, [op |-> op, name |-> r, key |-> <<r, op>>, amt |-> 0, ttl |-> 0], "row")
        BY <1>5, Zenon DEF Sweep
    <2> DEFINE op == IF resv[r].status = "settling" THEN "finalize" ELSE "release"
               q == [op |-> op, name |-> r, key |-> <<r, op>>, amt |-> 0, ttl |-> 0]
    <2>2. Starts(q, "row")
        BY <1>0, <2>1, Zenon DEF Starts, ExpiredReservations, Live, Discharges, Captures
    <2>3. Call(d, q, "row")
        BY <2>1, Zenon
    <2>. HIDE DEF q
    <2>. QED  BY <2>2, <2>3, CallInv, Zenon
<1>. QED  BY <1>1, <1>3, <1>4, <1>5, Zenon DEF Begin

\* A step of a call that takes a lock, reads, or only moves on.
LEMMA QuietInv ==
    ASSUME ReserverInv, NEW d \in Clients, NEW l, Quiet(d, l), ClientSound(d)', StillCharging(d),
           l = "commit" => pend[d] = NoWrite /\ call[d].op \in Discharges,
           mem' \in [Clients -> Mems], \A c \in Clients \ {d} : mem'[c] = mem[c],
           idemLock' = [k \in Names \cup OpKeys |-> idemLock'[k]],
           rowLock'  = [r \in Names |-> rowLock'[r]],
           \A k \in Names \cup OpKeys : Kept(idemLock[k], idemLock'[k], d),
           \A r \in Names : Kept(rowLock[r], rowLock'[r], d),
           Kept(balLock, balLock', d)
    PROVE  CalmStep /\ NoneReadied
<1>1. Others(d) /\ pc'[d] = l /\ call'[d] = call[d] /\ pend'[d] = pend[d]
    BY Zenon DEF Quiet, Goto, Others, ReserverInv, Shape
<1>2. Shape'
    BY Zenon DEF Quiet, Goto, ReserverInv, Shape, dbVars
<1>3. KeysApart'
    BY <1>1, KeysStill, Zenon DEF Quiet, dbVars
<1>4. UNCHANGED <<clock, dbVars>>
    BY Zenon DEF Quiet
<1>5. l = "commit" => call[d].op \notin Reserves
    BY Zenon DEF Discharges, Captures, Reserves
<1>. QED  BY <1>1, <1>2, <1>3, <1>4, <1>5, CalmInv, OthersReadyNone, Zenon

\* What the claims read before the transaction release, no later reservation gets back.
LEMMA CreditSound ==
    ASSUME ReserverInv
    PROVE  /\ VerifiedDischarges \in [Names -> Nat]
           /\ \A r \in Names : VerifiedDischarges[r] + Outstanding(resv[r]) <= resv[r].amt
<1>. SUFFICES ASSUME NEW r \in Names
              PROVE  VerifiedDischarges[r] \in Nat
                     /\ VerifiedDischarges[r] + Outstanding(resv[r]) <= resv[r].amt
    BY Zenon DEF VerifiedDischarges
<1>1. resv[r] \in Rows /\ resv[r].settled <= resv[r].amt
      /\ Outstanding(resv[r]) \in Nat /\ Outstanding(resv[r]) <= resv[r].amt
    BY OutstandingNat, Zenon DEF ReserverInv, Shape, RowsSound
<1>2. CASE VerifiedDischarges[r] = 0
    BY <1>1, <1>2 DEF Rows
<1>3. CASE ReceiptsOf(r) # {} /\ VerifiedDischarges[r] = resv[r].amt
    <2>1. resv[r].status \in Terminal
        BY <1>3, Zenon DEF ReserverInv, RowsSound
    <2>. QED  BY <1>1, <1>3, <2>1 DEF Rows, Outstanding, Terminal
<1>4. CASE ReceiptsOf(r) = {}
           /\ VerifiedDischarges[r] = SumFunction([m \in LegsOf(r) |-> m.amt])
    <2>1. LegsOf(r) = ClaimsOn(r)
        BY <1>4, Zenon DEF ClaimsOn
    <2>2. VerifiedDischarges[r] = resv[r].settled
        BY <1>4, <2>1, Zenon DEF ReserverInv, AppliedOnce
    <2>3. resv[r].status \in {"none", "active"} => resv[r].settled = 0
        BY Zenon DEF ReserverInv, RowsSound
    <2>. QED  BY <1>1, <2>2, <2>3 DEF Rows, Outstanding, Live, Terminal
<1>. QED  BY <1>2, <1>3, <1>4, Zenon DEF VerifiedDischarges, Verified

\* The reads before the transaction.
LEMMA VerifyInv ==
    ASSUME ReserverInv, NEW d \in Clients, Verify(d)
    PROVE  CalmStep /\ NoneReadied
<1>0. mem[d] \in Mems /\ bal \in Int /\ ClientSound(d) /\ UNCHANGED lockVars
      /\ call' = call /\ pend' = pend /\ clock' = clock /\ bal' = bal /\ resv' = resv
      /\ claims' = claims
    BY Zenon DEF ReserverInv, Shape, Verify, Quiet, dbVars
<1>1. PICK l \in {"credit", "lookup"}, m \in Mems :
         /\ pc[d] \in {"verify", "credit"} /\ Quiet(d, l) /\ Learn(d, m)
         /\ m.start = mem[d].start /\ m.done = mem[d].done
         /\ \A r \in Names : m.credit[r] + Outstanding(resv[r]) <= resv[r].amt
    <2>1. CASE pc[d] = "verify"
        <3> DEFINE m == [mem[d] EXCEPT !.verified = bal]
        <3>1. Quiet(d, "credit") /\ Learn(d, m)
            BY <2>1, Zenon DEF Verify
        <3>2. m \in Mems /\ m.start = mem[d].start /\ m.done = mem[d].done
              /\ m.credit = mem[d].credit
            BY <1>0, Zenon DEF Mems
        <3>. QED  BY <1>0, <2>1, <3>1, <3>2, Zenon DEF ClientSound, ReadsSound
    <2>2. CASE pc[d] = "credit"
        <3> DEFINE m == [mem[d] EXCEPT !.credit = VerifiedDischarges]
        <3>1. Quiet(d, "lookup") /\ Learn(d, m)
            BY <2>2, Zenon DEF Verify
        <3>2. m \in Mems /\ m.start = mem[d].start /\ m.done = mem[d].done
              /\ m.credit = VerifiedDischarges
            BY <1>0, CreditSound, Zenon DEF Mems
        <3>. QED  BY <1>0, <2>2, <3>1, <3>2, CreditSound, Zenon
    <2>. QED  BY <2>1, <2>2, Zenon DEF Verify
<1>2. mem' \in [Clients -> Mems] /\ mem'[d] = m /\ pc'[d] = l
      /\ \A c \in Clients \ {d} : mem'[c] = mem[c]
    BY <1>1, Zenon DEF Learn, Quiet, Goto, ReserverInv, Shape
<1>3. call[d].op \in Reserves
    BY <1>0, <1>1, Zenon DEF ClientSound, CallSound
<1>4. ClientSound(d)'
    <2>1. CallSound(d)' /\ LocksHeld(d)' /\ WritesSound(d)'
        BY <1>0, <1>1, <1>2, <1>3, Zenon DEF ClientSound, CallSound, LocksHeld, WritesSound, Reserves,
           Captures, Discharges
    <2>2. ReadsSound(d)'
        BY <1>0, <1>1, <1>2, Zenon DEF ClientSound, ReadsSound
    <2>3. RetriesSound(d)'
        BY <1>0, <1>1, <1>2, <1>3, Zenon DEF ClientSound, RetriesSound, Done, Existing, Reserves, Captures,
           Discharges
    <2>. QED  BY <2>1, <2>2, <2>3, Zenon DEF ClientSound
<1>5. StillCharging(d)
    BY <1>0, <1>1, <1>2, Zenon DEF StillCharging, Charging
<1>. QED  BY <1>0, <1>1, <1>2, <1>4, <1>5, QuietInv, Zenon DEF lockVars, Kept, ReserverInv, Shape

\* What a quiet step leaves alone.
LEMMA QuietFrame ==
    ASSUME ReserverInv, NEW d \in Clients, NEW l, Quiet(d, l)
    PROVE  /\ pc'[d] = l /\ call'[d] = call[d] /\ pend'[d] = pend[d] /\ d # NoClient
           /\ clock' = clock /\ bal' = bal /\ resv' = resv /\ claims' = claims
           /\ ClientSound(d) /\ mem[d] \in Mems /\ mem \in [Clients -> Mems]
           /\ Done(call[d])' = Done(call[d])
           /\ clock \in Nat /\ bal \in Int
<1>1. pc'[d] = l /\ call'[d] = call[d] /\ pend'[d] = pend[d] /\ d # NoClient
      /\ clock' = clock /\ bal' = bal /\ resv' = resv /\ claims' = claims
      /\ ClientSound(d) /\ mem[d] \in Mems /\ mem \in [Clients -> Mems]
      /\ clock \in Nat /\ bal \in Int
    BY ReserverAssumption, Zenon DEF Quiet, Goto, dbVars, ReserverInv, Shape
<1>2. Done(call[d])' = Done(call[d])
    BY <1>1, Zenon DEF Done, Existing
<1>. QED  BY <1>1, <1>2, Zenon

\* A look-up finds the reservation and answers, or finds none and goes on.
LEMMA LookupInv ==
    ASSUME ReserverInv, NEW d \in Clients,
           Lookup(d, "lookup", "idem") \/ Lookup(d, "recheck", "balance")
    PROVE  CalmStep /\ NoneReadied
<1>1. CASE Row(d).status # "none"
    <2>1. PICK res : Answer(d, res)
        BY <1>1, Zenon DEF Lookup
    <2>. QED  BY <2>1, AnswerInv, Zenon DEF Answer
<1>2. CASE Row(d).status = "none"
    <2>1. PICK here \in {"lookup", "recheck"} :
             /\ pc[d] = here
             /\ Quiet(d, IF here = "lookup" THEN "idem" ELSE "balance")
             /\ Learn(d, IF here = "lookup" THEN [mem[d] EXCEPT !.start = clock] ELSE mem[d])
             /\ UNCHANGED lockVars
        BY <1>2, Zenon DEF Lookup
    <2> DEFINE l == IF here = "lookup" THEN "idem" ELSE "balance"
               m == IF here = "lookup" THEN [mem[d] EXCEPT !.start = clock] ELSE mem[d]
    <2>2. Quiet(d, l) /\ Learn(d, m)
        BY <2>1, Zenon
    <2>3. l \in {"idem", "balance"} /\ (l = "balance" <=> pc[d] = "recheck")
          /\ pc[d] \in {"lookup", "recheck"}
        BY <2>1, Zenon
    <2>. HIDE DEF l
    <2>4. pc'[d] = l /\ call'[d] = call[d] /\ pend'[d] = pend[d] /\ d # NoClient
          /\ clock' = clock /\ bal' = bal /\ resv' = resv /\ claims' = claims
          /\ ClientSound(d) /\ mem[d] \in Mems /\ mem \in [Clients -> Mems]
          /\ Done(call[d])' = Done(call[d]) /\ clock \in Nat
        BY <2>2, QuietFrame, Zenon
    <2>5. m \in Mems /\ m.start \in {clock, mem[d].start} /\ m.done = mem[d].done
          /\ m.credit = mem[d].credit /\ m.base = mem[d].base
        BY <2>4, Zenon DEF Mems
    <2>. HIDE DEF m
    <2>6. mem' \in [Clients -> Mems] /\ mem'[d] = m
          /\ \A c \in Clients \ {d} : mem'[c] = mem[c]
        BY <2>2, <2>4, <2>5, Zenon DEF Learn
    <2>7. call[d].op \in Reserves /\ resv[call[d].name].status = "none"
        BY <1>2, <2>3, <2>4, Zenon DEF ClientSound, CallSound, Row
    <2>8. CallSound(d)' /\ WritesSound(d)'
        BY <2>3, <2>4, <2>7, Zenon DEF ClientSound, CallSound, WritesSound, Reserves, Captures, Discharges
    <2>9. LocksHeld(d)'
        BY <2>1, <2>3, <2>4, <2>7, Zenon DEF ClientSound, LocksHeld, lockVars, Reserves, Captures,
           Discharges
    <2>10. ReadsSound(d)'
        BY <2>3, <2>4, <2>5, <2>6, <2>7 DEF ClientSound, ReadsSound
    <2>11. RetriesSound(d)'
        <3>1. ~ mem[d].done
            BY <2>3, <2>4, <2>7, Zenon DEF ClientSound, RetriesSound, Done
        <3>. QED  BY <2>5, <2>6, <3>1, Zenon DEF RetriesSound
    <2>12. ClientSound(d)'
        BY <2>8, <2>9, <2>10, <2>11, Zenon DEF ClientSound
    <2>13. StillCharging(d)
        BY <2>3, <2>4, Zenon DEF StillCharging, Charging
    <2>14. l # "commit"
        BY <2>3, Zenon
    <2>. QED  BY <2>1, <2>2, <2>6, <2>12, <2>13, <2>14, QuietInv, Zenon
              DEF lockVars, Kept, ReserverInv, Shape
<1>. QED  BY <1>1, <1>2, Zenon

\* The advisory locks.
LEMMA LockIdemInv ==
    ASSUME ReserverInv, NEW d \in Clients, LockIdem(d)
    PROVE  CalmStep /\ NoneReadied
<1> DEFINE l == IF call[d].op \in Captures THEN "balance" ELSE "recheck"
           k == call[d].key[1]
<1>1. pc[d] = "idem" /\ idemLock[k] = NoClient /\ idemLock' = [idemLock EXCEPT ![k] = d]
      /\ Quiet(d, l) /\ mem' = mem /\ balLock' = balLock /\ rowLock' = rowLock
    BY Zenon DEF LockIdem
<1>2. l \in {"balance", "recheck"} /\ (l = "balance" <=> call[d].op \in Captures)
    BY Zenon
<1>. HIDE DEF l
<1>3. pc'[d] = l /\ call'[d] = call[d] /\ pend'[d] = pend[d] /\ d # NoClient
      /\ clock' = clock /\ bal' = bal /\ resv' = resv /\ claims' = claims
      /\ ClientSound(d) /\ Done(call[d])' = Done(call[d]) /\ mem \in [Clients -> Mems]
    BY <1>1, QuietFrame, Zenon
<1>4. k \in Names \cup OpKeys /\ (call[d].op \in Reserves => k = call[d].name)
      /\ (call[d].op \in Reserves \/ call[d].op \in Captures)
    BY <1>1, <1>3, Zenon DEF ClientSound, CallSound, Captures, Reserves
<1>5. idemLock'[k] = d /\ idemLock' = [x \in Names \cup OpKeys |-> idemLock'[x]]
      /\ \A x \in Names \cup OpKeys : Kept(idemLock[x], idemLock'[x], d)
    BY <1>1, <1>4, Zenon DEF Kept, ReserverInv, Shape
<1>6. CallSound(d)' /\ WritesSound(d)'
    BY <1>1, <1>2, <1>3, <1>4, Zenon DEF ClientSound, CallSound, WritesSound, Reserves, Captures,
       Discharges
<1>7. LocksHeld(d)'
    BY <1>2, <1>3, <1>4, <1>5, Zenon DEF LocksHeld, Reserves, Captures, Discharges
<1>8. ReadsSound(d)'
    BY <1>1, <1>2, <1>3, <1>4, Zenon DEF ClientSound, ReadsSound, Captures, Reserves
<1>9. RetriesSound(d)'
    BY <1>1, <1>2, <1>3, <1>4, Zenon DEF ClientSound, RetriesSound, Captures, Reserves, Discharges
<1>10. ClientSound(d)'
    BY <1>6, <1>7, <1>8, <1>9, Zenon DEF ClientSound
<1>11. StillCharging(d) /\ l # "commit"
    BY <1>2, <1>3, Zenon DEF StillCharging, Charging
<1>. QED  BY <1>1, <1>3, <1>5, <1>10, <1>11, QuietInv, ZenonT(30) DEF Kept, ReserverInv, Shape

\* Reserve and Capture take the balance lock after their key's.
LEMMA LockBalanceInv ==
    ASSUME ReserverInv, NEW d \in Clients, LockBalance(d)
    PROVE  CalmStep /\ NoneReadied
<1> DEFINE l == IF call[d].op \in Captures THEN "row" ELSE "base"
<1>1. pc[d] = "balance" /\ balLock = NoClient /\ balLock' = d
      /\ Quiet(d, l) /\ mem' = mem /\ idemLock' = idemLock /\ rowLock' = rowLock
    BY Zenon DEF LockBalance
<1>2. l \in {"row", "base"} /\ (l = "row" <=> call[d].op \in Captures)
    BY Zenon
<1>. HIDE DEF l
<1>3. pc'[d] = l /\ call'[d] = call[d] /\ pend'[d] = pend[d] /\ d # NoClient
      /\ clock' = clock /\ bal' = bal /\ resv' = resv /\ claims' = claims
      /\ ClientSound(d) /\ Done(call[d])' = Done(call[d]) /\ mem \in [Clients -> Mems]
    BY <1>1, QuietFrame, Zenon
<1>4. call[d].op \in Reserves \/ call[d].op \in Captures
    BY <1>1, <1>3, Zenon DEF ClientSound, CallSound
<1>6. CallSound(d)' /\ WritesSound(d)'
    BY <1>1, <1>2, <1>3, <1>4, Zenon DEF ClientSound, CallSound, WritesSound, Reserves, Captures,
       Discharges
<1>7. LocksHeld(d)'
    BY <1>1, <1>2, <1>3, <1>4, Zenon DEF ClientSound, LocksHeld, Reserves, Captures, Discharges
<1>8. ReadsSound(d)'
    BY <1>1, <1>2, <1>3, <1>4, Zenon DEF ClientSound, ReadsSound, Captures, Reserves
<1>9. RetriesSound(d)'
    BY <1>1, <1>2, <1>3, <1>4, Zenon DEF ClientSound, RetriesSound, Captures, Reserves, Discharges
<1>10. ClientSound(d)'
    BY <1>6, <1>7, <1>8, <1>9, Zenon DEF ClientSound
<1>11. StillCharging(d) /\ l # "commit"
    BY <1>2, <1>3, Zenon DEF StillCharging, Charging
<1>. QED  BY <1>1, <1>3, <1>10, <1>11, QuietInv, Zenon DEF Kept, ReserverInv, Shape

\* The base is read under the balance lock.
LEMMA ReadBaseInv ==
    ASSUME ReserverInv, NEW d \in Clients, ReadBase(d)
    PROVE  CalmStep /\ NoneReadied
<1> DEFINE b == IF call[d].op = "gated" /\ mem[d].verified < bal THEN mem[d].verified ELSE bal
           m == [mem[d] EXCEPT !.base = b]
<1>1. pc[d] = "base" /\ Learn(d, m) /\ Quiet(d, "held") /\ UNCHANGED lockVars
    BY Zenon DEF ReadBase
<1>3. pc'[d] = "held" /\ call'[d] = call[d] /\ pend'[d] = pend[d]
      /\ clock' = clock /\ bal' = bal /\ resv' = resv /\ claims' = claims
      /\ ClientSound(d) /\ Done(call[d])' = Done(call[d]) /\ mem \in [Clients -> Mems]
      /\ mem[d] \in Mems /\ bal \in Int
    BY <1>1, QuietFrame, Zenon
<1>4. b \in Int /\ b <= bal
    BY <1>3 DEF Mems
<1>. HIDE DEF b
<1>5. m \in Mems /\ m.start = mem[d].start /\ m.done = mem[d].done
      /\ m.credit = mem[d].credit /\ m.base = b
    BY <1>3, <1>4, Zenon DEF Mems
<1>. HIDE DEF m
<1>6. mem' \in [Clients -> Mems] /\ mem'[d] = m
      /\ \A c \in Clients \ {d} : mem'[c] = mem[c]
    BY <1>1, <1>3, <1>5, Zenon DEF Learn
<1>7. call[d].op \in Reserves
    BY <1>1, <1>3, Zenon DEF ClientSound, CallSound
<1>8. CallSound(d)' /\ WritesSound(d)' /\ LocksHeld(d)'
    BY <1>1, <1>3, <1>7, Zenon DEF ClientSound, CallSound, WritesSound, LocksHeld, Reserves, Captures,
       Discharges, lockVars
<1>9. ReadsSound(d)'
    BY <1>1, <1>3, <1>4, <1>5, <1>6, <1>7, Zenon DEF ClientSound, ReadsSound
<1>10. RetriesSound(d)'
    BY <1>1, <1>3, <1>5, <1>6, <1>7, Zenon DEF ClientSound, RetriesSound
<1>11. ClientSound(d)'
    BY <1>8, <1>9, <1>10, Zenon DEF ClientSound
<1>12. StillCharging(d)
    BY <1>3, Zenon DEF StillCharging, Charging
<1>. QED  BY <1>1, <1>6, <1>11, <1>12, QuietInv, Zenon DEF lockVars, Kept, ReserverInv, Shape

\* The row lock of a discharge.
LEMMA LockRowInv ==
    ASSUME ReserverInv, NEW d \in Clients, LockRow(d)
    PROVE  CalmStep /\ NoneReadied
<1> DEFINE r == call[d].name
<1>1. pc[d] = "row" /\ rowLock[r] = NoClient /\ rowLock' = [rowLock EXCEPT ![r] = d]
      /\ Quiet(d, "check") /\ mem' = mem /\ balLock' = balLock /\ idemLock' = idemLock
    BY Zenon DEF LockRow
<1>3. pc'[d] = "check" /\ call'[d] = call[d] /\ pend'[d] = pend[d] /\ d # NoClient
      /\ clock' = clock /\ bal' = bal /\ resv' = resv /\ claims' = claims
      /\ ClientSound(d) /\ Done(call[d])' = Done(call[d]) /\ mem \in [Clients -> Mems]
    BY <1>1, QuietFrame, Zenon
<1>4. r \in Names /\ call[d].op \in Discharges
    BY <1>1, <1>3, Zenon DEF ClientSound, CallSound, Discharges
<1>5. rowLock'[r] = d /\ rowLock' = [x \in Names |-> rowLock'[x]]
      /\ \A x \in Names : Kept(rowLock[x], rowLock'[x], d)
    BY <1>1, <1>4, Zenon DEF Kept, ReserverInv, Shape
<1>6. CallSound(d)' /\ WritesSound(d)'
    BY <1>1, <1>3, <1>4, Zenon DEF ClientSound, CallSound, WritesSound, Reserves, Captures, Discharges
<1>7. LocksHeld(d)'
    BY <1>1, <1>3, <1>4, <1>5, Zenon DEF ClientSound, LocksHeld, Reserves, Captures, Discharges
<1>8. ReadsSound(d)' /\ RetriesSound(d)'
    BY <1>1, <1>3, <1>4, Zenon DEF ClientSound, ReadsSound, RetriesSound, Captures, Reserves, Discharges
<1>9. ClientSound(d)'
    BY <1>6, <1>7, <1>8, Zenon DEF ClientSound
<1>10. StillCharging(d)
    BY <1>3, Zenon DEF StillCharging, Charging
<1>. QED  BY <1>1, <1>3, <1>5, <1>9, <1>10, QuietInv, Zenon DEF Kept, ReserverInv, Shape

\* A claim under the key answers the retry; a discharge that is let through finds the
\* reservation unexpired.
LEMMA CheckInv ==
    ASSUME ReserverInv, NEW d \in Clients, Check(d)
    PROVE  CalmStep /\ NoneReadied
<1>0. pc[d] = "check"
    BY Zenon DEF Check
<1>1. ASSUME NEW res, Answer(d, res) PROVE CalmStep /\ NoneReadied
    BY <1>1, AnswerInv, Zenon DEF Answer
<1>2. ASSUME NEW l \in {"commit", "apply"}, Quiet(d, l), UNCHANGED <<mem, lockVars>>,
             l = "apply" => Existing(call[d]) = {} /\ ~ Expired(d) /\ Allowed(d)
      PROVE  CalmStep /\ NoneReadied
    <2>1. pc'[d] = l /\ call'[d] = call[d] /\ pend'[d] = pend[d] /\ d # NoClient
          /\ clock' = clock /\ bal' = bal /\ resv' = resv /\ claims' = claims
          /\ ClientSound(d) /\ Done(call[d])' = Done(call[d]) /\ mem \in [Clients -> Mems]
          /\ clock \in Nat
        BY <1>2, QuietFrame, Zenon
    <2>2. mem' = mem /\ balLock' = balLock /\ idemLock' = idemLock /\ rowLock' = rowLock
        BY <1>2, Zenon DEF lockVars
    <2>3. call[d].op \in Discharges /\ call[d].name \in Names /\ pend[d] = NoWrite
          /\ resv[call[d].name].status # "none"
        BY <1>0, <2>1, Zenon DEF ClientSound, CallSound, Discharges, WritesSound
    <2>4. CallSound(d)' /\ LocksHeld(d)'
        BY <1>0, <1>2, <2>1, <2>2, <2>3, Zenon DEF ClientSound, CallSound, LocksHeld, Reserves, Captures,
           Discharges
    <2>5. WritesSound(d)'
        <3>1. l = "apply" => Allowed(d)'
            BY <1>2, <2>1, Zenon DEF Allowed, SettleAllowed, PartialAllowed, FinalizeAllowed,
               ReleaseAllowed, Row
        <3>. QED  BY <2>1, <2>3, <3>1, Zenon DEF WritesSound, Discharges, Captures, Reserves
    <2>6. ReadsSound(d)'
        BY <1>0, <2>1, <2>2, <2>3, Zenon DEF ClientSound, ReadsSound, Discharges, Captures, Reserves
    <2>7. RetriesSound(d)'
        <3>1. l = "apply" => ~ mem[d].done
            BY <1>0, <1>2, <2>1, <2>3, Zenon DEF ClientSound, RetriesSound, Done, Discharges, Captures,
               Reserves
        <3>. QED  BY <1>0, <1>2, <2>1, <2>2, <2>3, <3>1, Zenon DEF ClientSound, RetriesSound, Discharges,
                     Captures, Reserves
    <2>8. ClientSound(d)'
        BY <2>4, <2>5, <2>6, <2>7, Zenon DEF ClientSound
    <2>9. StillCharging(d)
        <3>. SUFFICES ASSUME NEW r \in Names, Charging(d, r)' PROVE r \in Unexpired(clock)
            BY Zenon DEF StillCharging
        <3>1. l = "apply" /\ call[d].op \in Captures /\ call[d].name = r
            BY <1>2, <2>1, <2>3, Zenon DEF Charging
        <3>2. ~ (resv[r].exp <= clock)
            BY <1>2, <3>1, Zenon DEF Expired, ExpiredNow, Row, Claimed, Captures
        <3>3. resv[r].exp \in Nat
            BY Zenon DEF ReserverInv, Shape, Rows
        <3>. QED  BY <2>1, <2>3, <3>1, <3>2, <3>3 DEF Unexpired
    <2>. QED  BY <1>2, <2>1, <2>2, <2>3, <2>8, <2>9, QuietInv, Zenon DEF Kept, ReserverInv, Shape
<1>. QED  BY <1>1, <1>2, Zenon DEF Check

\* The charge: no other call of the key has charged, so none will before this commit.
LEMMA ChargeInv ==
    ASSUME ReserverInv, NEW d \in Clients, Charge(d)
    PROVE  CalmStep /\ NoneReadied
<1>0. pc[d] = "charge"
    BY Zenon DEF Charge
<1>1. ASSUME NEW res, Answer(d, res) PROVE CalmStep /\ NoneReadied
    BY <1>1, AnswerInv, Zenon DEF Answer
<1>2. CASE Quiet(d, "commit") /\ UNCHANGED <<mem, lockVars>>
           /\ ~ \E m \in claims : m.charged /\ m.key = call[d].key
    <2>1. pc'[d] = "commit" /\ call'[d] = call[d] /\ pend'[d] = pend[d] /\ d # NoClient
          /\ clock' = clock /\ bal' = bal /\ resv' = resv /\ claims' = claims
          /\ ClientSound(d) /\ Done(call[d])' = Done(call[d]) /\ mem \in [Clients -> Mems]
        BY <1>2, QuietFrame, Zenon
    <2>2. mem' = mem /\ balLock' = balLock /\ idemLock' = idemLock /\ rowLock' = rowLock
        BY <1>2, Zenon DEF lockVars
    <2>3. call[d].op \in Captures /\ call[d].name \in Names /\ call[d].op \in Discharges
          /\ call[d].op \notin Reserves
        BY <1>0, <2>1, Zenon DEF ClientSound, CallSound, Discharges, Captures, Reserves
    <2>4. CallSound(d)' /\ LocksHeld(d)'
        BY <1>0, <2>1, <2>2, <2>3, Zenon DEF ClientSound, CallSound, LocksHeld
    <2>5. WritesSound(d)'
        <3>1. /\ Allowed(d)' = Allowed(d) /\ NewRow(d)' = NewRow(d)
              /\ NewClaim(d, Table(call[d].op))' = NewClaim(d, Table(call[d].op))
            BY <2>1, Zenon DEF Allowed, SettleAllowed, PartialAllowed, FinalizeAllowed,
               ReleaseAllowed, Row, NewRow, NewClaim
        <3>. QED  BY <1>0, <2>1, <2>3, <3>1, Zenon DEF ClientSound, WritesSound
    <2>6. ReadsSound(d)' /\ RetriesSound(d)'
        BY <1>0, <2>1, <2>2, <2>3, Zenon DEF ClientSound, ReadsSound, RetriesSound
    <2>7. ClientSound(d)'
        BY <2>4, <2>5, <2>6, Zenon DEF ClientSound
    <2>8. Others(d) /\ UNCHANGED <<clock, dbVars>>
        BY <1>2, <2>2, Zenon DEF Quiet, Goto, Others, Kept, ReserverInv, Shape
    <2>9. KeysApart'
        <3>1. \A c \in Clients : pend'[c] = pend[c]
            BY <2>1, <2>8, Zenon DEF Others
        <3>2. \A c \in Clients \ {d} : pc'[c] = pc[c]
            BY <2>8, Zenon DEF Others
        <3>3. \A m \in pend[d].claim : m.key = call[d].key
            <4>1. pend[d].claim = {NewClaim(d, Table(call[d].op))}
                BY <1>0, <2>1, <2>3 DEF ClientSound, WritesSound
            <4>. QED  BY <4>1 DEF NewClaim
        <3>4. \A m \in pend[d].claim : \A n \in claims : n.charged => n.key # m.key
            BY <1>2, <3>3, Zenon
        <3>. QED  BY <2>1, <3>1, <3>2, <3>4 DEF ReserverInv, KeysApart
    <2>10. StillCharging(d)
        BY <1>0, <2>1, <2>2, Zenon DEF StillCharging, Charging
    <2>11. Shape'
        BY <1>2, <2>2, Zenon DEF Quiet, Goto, ReserverInv, Shape, dbVars
    <2>. QED  BY <2>1, <2>3, <2>7, <2>8, <2>9, <2>10, <2>11, CalmInv, OthersReadyNone, Zenon
<1>. QED  BY <1>1, <1>2, Zenon DEF Charge

\* The row and the claim are written once no other transaction holds the key.
LEMMA ApplyInv ==
    ASSUME ReserverInv, NEW d \in Clients, Apply(d)
    PROVE  CalmStep /\ NoneReadied
<1>0. pc[d] = "apply" /\ ~ KeyInFlight(d)
    BY Zenon DEF Apply
<1>1. CASE Answer(d, "conflict")
    BY <1>1, AnswerInv, Zenon DEF Answer
<1> DEFINE l == IF call[d].op \in Captures THEN "charge" ELSE "commit"
           n == NewClaim(d, Table(call[d].op))
<1>2. CASE /\ Existing(call[d]) = {}
           /\ pend' = [pend EXCEPT ![d] =
                 [row |-> NewRow(d), claim |-> InsertReceipt(d) \cup InsertLeg(d)]]
           /\ Goto(d, l)
           /\ UNCHANGED <<clock, dbVars, lockVars, call, mem, result, calls, faults>>
    <2>1. /\ pc'[d] = l /\ call' = call /\ mem' = mem
          /\ clock' = clock /\ bal' = bal /\ resv' = resv /\ claims' = claims
          /\ balLock' = balLock /\ idemLock' = idemLock /\ rowLock' = rowLock
          /\ ClientSound(d)
        BY <1>2, Zenon DEF Goto, dbVars, lockVars, ReserverInv, Shape
    <2>2. call[d].op \in Discharges /\ call[d].op \notin Reserves /\ call[d].name \in Names
          /\ Allowed(d) /\ ~ mem[d].done
        BY <1>0, <2>1, Zenon DEF ClientSound, CallSound, WritesSound, RetriesSound, Reserves, Captures,
           Discharges
    <2>3. InsertReceipt(d) \cup InsertLeg(d) = {n}
        <3>1. Table(call[d].op) = "receipts" \/ Table(call[d].op) = "legs"
            BY Zenon DEF Table
        <3>2. CASE Table(call[d].op) = "receipts"
            BY <3>2, Zenon DEF InsertReceipt, InsertLeg
        <3>3. CASE Table(call[d].op) = "legs"
            BY <3>3, Zenon DEF InsertReceipt, InsertLeg
        <3>. QED  BY <3>1, <3>2, <3>3, Zenon
    <2>4. pend'[d] = [row |-> NewRow(d), claim |-> {n}]
        BY <1>2, <2>3, Zenon DEF ReserverInv, Shape
    <2>5. n.table = Table(call[d].op) /\ n.key = call[d].key /\ n.charged = (call[d].op \in Captures)
        BY Zenon DEF NewClaim
    <2>6. /\ Allowed(d)' = Allowed(d) /\ NewRow(d)' = NewRow(d)
          /\ NewClaim(d, Table(call[d].op))' = n
        BY <2>1, Zenon DEF Allowed, SettleAllowed, PartialAllowed, FinalizeAllowed, ReleaseAllowed, Row,
           NewRow, NewClaim
    <2>7. l \in {"charge", "commit"} /\ (l = "charge" <=> call[d].op \in Captures)
        BY Zenon
    <2>. HIDE DEF l, n
    <2>8. CallSound(d)' /\ LocksHeld(d)'
        BY <1>0, <2>1, <2>2, <2>7, Zenon DEF ClientSound, CallSound, LocksHeld, Captures, Reserves,
           Discharges
    <2>9. WritesSound(d)'
        BY <2>1, <2>2, <2>4, <2>6, <2>7, Zenon DEF WritesSound
    <2>10. ReadsSound(d)' /\ RetriesSound(d)'
        BY <1>0, <2>1, <2>2, <2>7, Zenon DEF ClientSound, ReadsSound, RetriesSound
    <2>11. ClientSound(d)'
        BY <2>8, <2>9, <2>10, Zenon DEF ClientSound
    <2>12. Others(d) /\ UNCHANGED <<clock, dbVars>>
        BY <1>2, <2>1, Zenon DEF Goto, Others, Kept, ReserverInv, Shape
    <2>13. KeysApart'
        <3>1. \A c \in Clients \ {d} : pend'[c] = pend[c] /\ pc'[c] = pc[c]
            BY <2>12, Zenon DEF Others
        <3>2. \A m \in claims : m.key = n.key => m.table # n.table
            BY <1>2, <2>5, Zenon DEF Existing
        <3>3. \A c \in Clients \ {d} : \A m \in pend[c].claim : m.key = n.key => m.table # n.table
            BY <1>0, <2>5, Zenon DEF KeyInFlight
        <3>4. pc'[d] = "commit" => ~ n.charged
            BY <2>1, <2>5, <2>7, Zenon
        <3>5. pend'[d].claim = {n}
            BY <2>4
        <3>6. ASSUME NEW c \in Clients, NEW m \in pend'[c].claim
              PROVE  /\ \A x \in claims' : x.key = m.key => x.table # m.table
                     /\ \A e \in Clients \ {c} : \A x \in pend'[e].claim :
                           x.key = m.key => x.table # m.table
                     /\ pc'[c] = "commit" /\ m.charged => \A x \in claims' : x.charged => x.key # m.key
            <4>1. CASE c = d
                BY <2>1, <3>1, <3>2, <3>3, <3>4, <3>5, <3>6, <4>1, Zenon
            <4>2. CASE c # d
                <5>1. m \in pend[c].claim /\ pc'[c] = pc[c]
                    BY <3>1, <3>6, <4>2, Zenon
                <5>2. \A e \in Clients \ {c} : \A x \in pend'[e].claim :
                         x.key = m.key => x.table # m.table
                    BY <3>1, <3>3, <3>5, <4>2, <5>1 DEF ReserverInv, KeysApart
                <5>. QED  BY <2>1, <5>1, <5>2, Zenon DEF ReserverInv, KeysApart
            <4>. QED  BY <4>1, <4>2, Zenon
        <3>. QED  BY <3>6, Zenon DEF KeysApart
    <2>14. StillCharging(d)
        BY <1>0, <2>1, <2>2, Zenon DEF StillCharging, Charging
    <2>15. Shape'
        BY <1>2, <2>1, Zenon DEF Goto, ReserverInv, Shape
    <2>. QED  BY <2>1, <2>2, <2>11, <2>12, <2>13, <2>14, <2>15, CalmInv, OthersReadyNone, Zenon
<1>. QED  BY <1>1, <1>2, Zenon DEF Apply

\* A discharge past its checks fits into what is outstanding, under the row lock.
LEMMA ChargeFits ==
    ASSUME ReserverInv, NEW c \in Clients, NEW r, Charging(c, r)
    PROVE  /\ r \in Names /\ rowLock[r] = c /\ balLock = c /\ call[c].amt \in Nat
           /\ Allowed(c) /\ call[c].amt <= Outstanding(resv[r])
<1>1. ClientSound(c) /\ call[c].op \in Captures /\ call[c].op \in Discharges /\ call[c].name = r
      /\ pc[c] \in {"apply", "charge", "commit"}
    BY Zenon DEF ReserverInv, Charging, Discharges
<1>2. r \in Names /\ call[c].amt \in Nat /\ rowLock[r] = c /\ balLock = c
    BY <1>1, Zenon DEF ClientSound, CallSound, LocksHeld
<1>3. Allowed(c)
    BY <1>1, Zenon DEF Charging, ClientSound, WritesSound
<1>4. SettleAllowed(c) \/ PartialAllowed(c)
    <2>1. CASE call[c].op = "capture"
        <3>1. Claimed(call[c].op) = "settle"
            BY <2>1, Zenon DEF Claimed
        <3>. QED  BY <1>3, <3>1, Zenon DEF Allowed
    <2>2. CASE call[c].op = "capturePartial"
        <3>1. Claimed(call[c].op) = "partial"
            BY <2>2, Zenon DEF Claimed
        <3>. QED  BY <1>3, <3>1, Zenon DEF Allowed
    <2>. QED  BY <1>1, <2>1, <2>2, Zenon DEF Captures
<1>5. resv[r] \in Rows
    BY <1>2, Zenon DEF ReserverInv, Shape
<1>6. resv[r].status = "active" => resv[r].settled = 0
    BY <1>2, Zenon DEF ReserverInv, RowsSound
<1>7. call[c].amt <= Outstanding(resv[r])
    BY <1>1, <1>2, <1>4, <1>5, <1>6 DEF SettleAllowed, PartialAllowed, Row, Outstanding, Rows, Live
<1>. QED  BY <1>2, <1>3, <1>7, Zenon

\* Time passes: what expires is no longer held, but for a capture past its checks.
LEMMA TickInv ==
    ASSUME ReserverInv, Tick
    PROVE  CalmStep /\ NoneReadied
<1>0. /\ clock' = clock + 1 /\ clock \in Nat
      /\ bal' = bal /\ resv' = resv /\ claims' = claims /\ pc' = pc /\ call' = call /\ mem' = mem
      /\ pend' = pend /\ idemLock' = idemLock /\ balLock' = balLock /\ rowLock' = rowLock
      /\ result' = result
    BY Zenon DEF Tick, dbVars, lockVars, ReserverInv, Shape
<1>1. Shape' /\ RowsSound' /\ AppliedOnce' /\ KeysApart'
    BY <1>0 DEF ReserverInv, Shape, RowsSound, AppliedOnce, KeysApart, ClaimsOn, ReceiptsOf, LegsOf
<1>2. ASSUME NEW c \in Clients PROVE ClientSound(c)'
    <2>1. ClientSound(c) /\ mem[c].start \in Nat
        BY Zenon DEF ReserverInv, Shape, Mems
    <2>2. CallSound(c)' /\ LocksHeld(c)'
        BY <1>0, <2>1, Zenon DEF ClientSound, CallSound, LocksHeld
    <2>3. ReadsSound(c)'
        <3>1. ReadsSound(c) /\ mem[c].start <= clock'
            BY <1>0, <2>1 DEF ClientSound, ReadsSound
        <3>. QED  BY <1>0, <3>1, Zenon DEF ReadsSound
    <2>4. Allowed(c)' = Allowed(c) /\ NewRow(c)' = NewRow(c)
          /\ NewClaim(c, Table(call[c].op))' = NewClaim(c, Table(call[c].op))
        BY <1>0, Zenon DEF Allowed, SettleAllowed, PartialAllowed, FinalizeAllowed, ReleaseAllowed, Row,
                    NewRow, NewClaim
    <2>5. WritesSound(c)'
        BY <1>0, <2>1, <2>4, Zenon DEF ClientSound, WritesSound
    <2>6. RetriesSound(c)'
        BY <1>0, <2>1, Zenon DEF ClientSound, RetriesSound, Done, Existing
    <2>. QED  BY <2>2, <2>3, <2>5, <2>6, Zenon DEF ClientSound
<1>3. ASSUME NEW r \in Names PROVE Hold(r) \in Nat /\ Hold(r)' \in Nat /\ Hold(r)' <= Hold(r)
    <2>1. Hold(r) \in Nat
        BY HoldNat, Zenon
    <2>2. resv[r].exp \in Nat
        BY Zenon DEF ReserverInv, Shape, Rows
    <2>3. \A c : Charging(c, r)' = Charging(c, r)
        BY <1>0, Zenon DEF Charging
    <2>4. r \in Unexpired(clock)' => r \in Unexpired(clock)
        BY <1>0, <2>2 DEF Unexpired
    <2>5. CASE r \in Unexpired(clock)'
        BY <1>0, <2>1, <2>4, <2>5 DEF Hold
    <2>6. CASE r \notin Unexpired(clock)' /\ ~ (rowLock[r] \in Clients /\ Charging(rowLock[r], r))
        <3>1. Hold(r)' = 0
            BY <1>0, <2>3, <2>6, Zenon DEF Hold
        <3>. QED  BY <2>1, <3>1
    <2>7. CASE r \notin Unexpired(clock)' /\ rowLock[r] \in Clients /\ Charging(rowLock[r], r)
        <3> DEFINE c == rowLock[r]
        <3>1. Hold(r)' = call[c].amt
            BY <1>0, <2>3, <2>7, Zenon DEF Hold
        <3>2. call[c].amt \in Nat /\ call[c].amt <= Outstanding(resv[r])
            BY <2>7, ChargeFits, Zenon
        <3>3. Hold(r) = Outstanding(resv[r]) \/ Hold(r) = call[c].amt
            BY <2>7, Zenon DEF Hold
        <3>. QED  BY <2>1, <3>1, <3>2, <3>3
    <2>. QED  BY <2>5, <2>6, <2>7, Zenon
<1>. QED  BY <1>0, <1>1, <1>2, <1>3, Zenon DEF CalmStep, NoneReadied

-----------------------------------------------------------------------------
(* COMMIT.                                                                 *)

\* An idle client knows nothing and holds nothing.
LEMMA IdleSound ==
    ASSUME Shape', RowsSound', NEW d \in Clients, pc'[d] = "idle", call'[d] = NoCall,
           mem'[d] = NoMem, pend'[d] = NoWrite
    PROVE  ClientSound(d)'
<1>1. ReadsSound(d)'
    <2>1. \A r \in Names : /\ resv'[r] \in Rows
                           /\ Outstanding(resv'[r]) \in Nat /\ Outstanding(resv'[r]) <= resv'[r].amt
        BY OutstandingNat, Zenon DEF Shape, RowsSound
    <2>. QED  BY <2>1 DEF ReadsSound, NoMem, NoCall, Reserves, Shape, Rows
<1>. QED  BY <1>1, Zenon DEF ClientSound, CallSound, LocksHeld, WritesSound, RetriesSound,
              NoCall, Reserves, Captures, Discharges

\* The row a discharge writes: its amount leaves what is outstanding and joins what is
\* settled, and only a leg leaves the reservation open.
LEMMA DischargedRow ==
    ASSUME ReserverInv, NEW d \in Clients, call[d].op \in Discharges, pc[d] # "idle", Allowed(d)
    PROVE  LET row == resv[call[d].name]
               new == NewRow(d)
           IN  /\ row \in Rows /\ new \in Rows /\ row.status \in Live
               /\ new.amt = row.amt /\ new.ttl = row.ttl /\ new.exp = row.exp
               /\ new.status \in {"settled", "settling", "released"}
               /\ new.settled <= new.amt /\ new.settled = row.settled + call[d].amt
               /\ Outstanding(new) \in Nat
               /\ Outstanding(new) + call[d].amt <= Outstanding(row)
               /\ Table(call[d].op) # "legs" => new.status \in Terminal
<1> DEFINE row == resv[call[d].name]
           new == NewRow(d)
           a   == call[d].amt
           op  == Claimed(call[d].op)
<1>1. call[d].name \in Names /\ a \in Nat /\ row \in Rows /\ row.settled <= row.amt
      /\ (row.status = "active" => row.settled = 0)
    BY Zenon DEF ReserverInv, ClientSound, CallSound, Shape, RowsSound
<1>2. call[d].op \in {"finalize", "release"} => a = 0
    BY Zenon DEF ReserverInv, ClientSound, CallSound, Captures, Reserves, Discharges
<1>3. op \in {"settle", "partial", "finalize", "release"}
      /\ (op \in {"finalize", "release"} => call[d].op = op)
    BY Zenon DEF Claimed, Discharges, Captures
<1> DEFINE s == Target(op)
           v == IF op = "partial" THEN row.settled + a ELSE IF op = "settle" THEN a
                ELSE row.settled
<1>4. new = [row EXCEPT !.status = s, !.settled = v]
    BY Zenon DEF NewRow, Row
<1>5. Table(call[d].op) # "legs" <=> op # "partial"
    BY Zenon DEF Table
<1>6. /\ op = "settle" => SettleAllowed(d)
      /\ op = "partial" => PartialAllowed(d)
      /\ op = "finalize" => FinalizeAllowed(d)
      /\ op = "release" => ReleaseAllowed(d)
    BY Zenon DEF Allowed
<1>. HIDE DEF op, new
<1>7. /\ s \in {"settled", "settling", "released"} /\ (op # "partial" <=> s \in Terminal)
      /\ row.status \in Live /\ v \in Nat /\ v = row.settled + a /\ v <= row.amt
      /\ s = "settling" => op = "partial"
      /\ a <= Outstanding(row)
    <2>1. CASE op = "settle"
        <3>1. row.status = "active" /\ a <= row.amt
            BY <1>6, <2>1, Zenon DEF SettleAllowed, Row
        <3>. QED  BY <1>1, <2>1, <3>1 DEF Target, Rows, Outstanding, Live, Terminal
    <2>2. CASE op = "partial"
        <3>1. row.status \in Live /\ row.settled + a <= row.amt
            BY <1>6, <2>2, Zenon DEF PartialAllowed, Row
        <3>. QED  BY <1>1, <2>2, <3>1 DEF Target, Rows, Outstanding, Live, Terminal
    <2>3. CASE op \in {"finalize", "release"}
        <3>1. row.status \in Live /\ a = 0
            BY <1>2, <1>3, <1>6, <2>3, Zenon DEF FinalizeAllowed, ReleaseAllowed, Row, Live
        <3>. QED  BY <1>1, <2>3, <3>1 DEF Target, Rows, Outstanding, Live, Terminal
    <2>. QED  BY <1>3, <2>1, <2>2, <2>3, Zenon
<1>. HIDE DEF s, v
<1>8. new.status = s /\ new.settled = v /\ new.amt = row.amt /\ new.ttl = row.ttl
      /\ new.exp = row.exp /\ new \in Rows
    BY <1>1, <1>4, <1>7, Zenon DEF Rows, Live, Terminal
<1>9. Outstanding(new) \in Nat /\ Outstanding(new) + a <= Outstanding(row)
    <2>1. row.amt \in Nat /\ row.settled \in Nat /\ a \in Nat
        BY <1>1, Zenon DEF Rows
    <2>2. Outstanding(row) = row.amt - row.settled
        BY <1>1, <1>7, <2>1 DEF Outstanding, Live
    <2>3. Outstanding(new) \in {0, row.amt - v}
        BY <1>7, <1>8, Zenon DEF Outstanding
    <2>. QED  BY <1>7, <2>1, <2>2, <2>3
<1>. HIDE DEF row, a
<1>10. /\ row \in Rows /\ new \in Rows /\ row.status \in Live
       /\ new.amt = row.amt /\ new.ttl = row.ttl /\ new.exp = row.exp
       /\ new.status \in {"settled", "settling", "released"}
       /\ new.settled <= new.amt /\ new.settled = row.settled + a
       /\ Outstanding(new) \in Nat /\ Outstanding(new) + a <= Outstanding(row)
       /\ Table(call[d].op) # "legs" => new.status \in Terminal
    BY <1>1, <1>5, <1>7, <1>8, <1>9, Zenon
<1>. QED  BY <1>10, Zenon DEF row, new, a

\* Where an uncommitted claim comes from.
LEMMA ClaimSound ==
    ASSUME ReserverInv, NEW c \in Clients, NEW m \in pend[c].claim
    PROVE  /\ call[c].op \in Discharges /\ pc[c] \in {"charge", "commit"} /\ Allowed(c)
           /\ pend[c] = [row |-> NewRow(c), claim |-> {NewClaim(c, Table(call[c].op))}]
           /\ m = NewClaim(c, Table(call[c].op)) /\ m.key = call[c].key
           /\ m.name = call[c].name /\ m.amt = call[c].amt /\ m.table = Table(call[c].op)
           /\ m.charged = (call[c].op \in Captures)
           /\ m.charged => idemLock[m.key[1]] = c
<1>1. ClientSound(c) /\ pend[c] # NoWrite
    BY DEF ReserverInv, NoWrite
<1>2. pc[c] \in {"charge", "commit"} /\ pc[c] # "idle"
    BY <1>1, Zenon DEF ClientSound, WritesSound
<1>3. call[c].op \in Discharges
    BY <1>1, <1>2, Zenon DEF ClientSound, CallSound, WritesSound, Discharges
<1>4. Allowed(c) /\ pend[c] = [row |-> NewRow(c), claim |-> {NewClaim(c, Table(call[c].op))}]
    <2>1. WritesSound(c)
        BY <1>1, Zenon DEF ClientSound
    <2>. QED  BY <1>1, <1>2, <1>3, <2>1, Zenon DEF WritesSound
<1>5. m = NewClaim(c, Table(call[c].op))
    BY <1>4
<1>6. m.key = call[c].key /\ m.name = call[c].name /\ m.amt = call[c].amt
      /\ m.table = Table(call[c].op) /\ m.charged = (call[c].op \in Captures)
    BY <1>5, Zenon DEF NewClaim
<1>7. m.charged => idemLock[m.key[1]] = c
    BY <1>1, <1>2, <1>6, Zenon DEF ClientSound, LocksHeld
<1>. QED  BY <1>2, <1>3, <1>4, <1>5, <1>6, <1>7, Zenon

\* A commit uses up its own key and no other in flight.
LEMMA KeysCommit ==
    ASSUME ReserverInv, NEW d \in Clients, Others(d), pend'[d] = NoWrite,
           claims' = claims \cup pend[d].claim
    PROVE  KeysApart'
<1>1. pend'[d].claim = {}
    BY DEF NoWrite
<1>2. \A c \in Clients \ {d} : pend'[c] = pend[c] /\ pc'[c] = pc[c]
    BY Zenon DEF Others
<1>3. ASSUME NEW c \in Clients \ {d}, NEW m \in pend[c].claim, NEW x \in pend[d].claim,
             m.charged, x.charged, x.key = m.key
      PROVE  FALSE
    <2>1. c \in Clients /\ c # d
        BY Zenon
    <2>2. m.charged => idemLock[m.key[1]] = c
        BY <2>1, ClaimSound, Zenon
    <2>3. x.charged => idemLock[x.key[1]] = d
        BY ClaimSound, ZenonT(30)
    <2>. QED  BY <1>3, <2>1, <2>2, <2>3, Zenon
<1>4. ASSUME NEW c \in Clients, NEW m \in pend'[c].claim
      PROVE  /\ \A x \in claims' : x.key = m.key => x.table # m.table
             /\ \A e \in Clients \ {c} : \A x \in pend'[e].claim :
                   x.key = m.key => x.table # m.table
             /\ pc'[c] = "commit" /\ m.charged => \A x \in claims' : x.charged => x.key # m.key
    <2>1. c # d /\ m \in pend[c].claim /\ pc'[c] = pc[c]
        BY <1>1, <1>2, <1>4, Zenon
    <2>2. \A e \in Clients \ {c} : \A x \in pend'[e].claim : x \in pend[e].claim
        BY <1>1, <1>2, Zenon
    <2>3. \A x \in claims' : x \in claims \/ x \in pend[d].claim
        BY Zenon
    <2>4. /\ \A x \in claims : x.key = m.key => x.table # m.table
          /\ \A e \in Clients \ {c} : \A x \in pend[e].claim : x.key = m.key => x.table # m.table
          /\ pc[c] = "commit" /\ m.charged => \A x \in claims : x.charged => x.key # m.key
        BY <2>1, Zenon DEF ReserverInv, KeysApart
    <2>. QED  BY <1>3, <2>1, <2>2, <2>3, <2>4, Zenon
<1>. QED  BY <1>4, Zenon DEF KeysApart

\* What a commit by d that writes the row n may change of it, seen by another client: its
\* released part never shrinks, and no other call counts on the row or on the balance.
LEMMA WriteSound ==
    ASSUME ReserverInv, NEW d \in Clients, Others(d), clock' = clock, NEW n \in Names,
           Shape', \A r \in Names \ {n} : resv'[r] = resv[r], claims \subseteq claims',
           resv'[n].status # "none",
           resv[n].amt + Outstanding(resv'[n]) <= resv'[n].amt + Outstanding(resv[n]),
           Outstanding(resv'[n]) \in Nat,
           resv[n].status # "none" => SameRow(resv[n], resv'[n]),
           bal' = bal \/ balLock = d,
           NEW c \in Clients \ {d},
           call[c].op \in Reserves /\ pc[c] \in {"balance", "base", "held", "commit"} =>
               call[c].name # n,
           call[c].op \in Discharges /\ pc[c] \in {"apply", "charge", "commit"} =>
               call[c].name # n
    PROVE  ClientSound(c)'
<1>0. c \in Clients /\ c # NoClient /\ c # d /\ ClientSound(c)
    BY ReserverAssumption, Zenon DEF ReserverInv
<1>1. pc'[c] = pc[c] /\ call'[c] = call[c] /\ mem'[c] = mem[c] /\ pend'[c] = pend[c]
    BY Zenon DEF Others
<1>2. CallSound(c)'
    <2>1. \A r \in Names : resv[r].status # "none" => resv'[r].status # "none"
        BY Zenon
    <2>. QED  BY <1>0, <1>1, <2>1, Zenon DEF ClientSound, CallSound
<1>3. LocksHeld(c)'
    <2>1. \A k \in Names \cup OpKeys : idemLock[k] = c => idemLock'[k] = c
        BY <1>0, Zenon DEF Others, Kept
    <2>2. \A r \in Names : rowLock[r] = c => rowLock'[r] = c
        BY <1>0, Zenon DEF Others, Kept
    <2>3. balLock = c => balLock' = c
        BY <1>0, Zenon DEF Others, Kept
    <2>4. pc[c] = "idle" \/ (call[c].name \in Names /\
             (call[c].op \in Captures => call[c].key[1] \in OpKeys))
        BY <1>0, Zenon DEF ClientSound, CallSound, Reserves, Captures, Discharges
    <2>. QED  BY <1>0, <1>1, <2>1, <2>2, <2>3, <2>4, Zenon DEF ClientSound, LocksHeld
<1>4. ReadsSound(c)'
    <2>1. ASSUME NEW r \in Names PROVE mem[c].credit[r] + Outstanding(resv'[r]) <= resv'[r].amt
        <3>1. mem[c].credit[r] + Outstanding(resv[r]) <= resv[r].amt
            BY <1>0, Zenon DEF ClientSound, ReadsSound
        <3>2. mem[c].credit[r] \in Nat /\ resv[r].amt \in Nat /\ resv'[r].amt \in Nat
              /\ Outstanding(resv[r]) \in Nat
            BY <1>0, OutstandingNat DEF ReserverInv, Shape, RowsSound, Mems, Rows
        <3>3. CASE r = n
            <4>. DEFINE i == resv[r].amt  j == resv'[r].amt  k == mem[c].credit[r]
                        x == Outstanding(resv[r])  y == Outstanding(resv'[r])
            <4>1. i + y <= j + x /\ y \in Nat
                BY <3>3, Zenon
            <4>2. k + x <= i /\ i \in Nat /\ j \in Nat /\ k \in Nat /\ x \in Nat
                BY <3>1, <3>2, Zenon
            <4>. HIDE DEF i, j, k, x, y
            <4>3. k + y <= j
                BY <4>1, <4>2
            <4>. QED  BY <4>3, Zenon DEF j, k, y
        <3>4. CASE r # n
            BY <3>1, <3>4, Zenon
        <3>. QED  BY <3>3, <3>4, Zenon
    <2>2. pc[c] = "held" => mem[c].base <= bal'
        <3>. SUFFICES ASSUME pc[c] = "held" PROVE mem[c].base <= bal'
            BY Zenon
        <3>1. call[c].op \in Reserves /\ balLock = c /\ mem[c].base <= bal
            BY <1>0, Zenon DEF ClientSound, CallSound, LocksHeld, ReadsSound
        <3>. QED  BY <1>0, <3>1, Zenon
    <2>3. call[c].op \in Reserves /\ pc[c] \in {"balance", "base", "held", "commit"}
             => resv'[call[c].name].status = "none"
        <3>1. pc[c] # "idle" => call[c].name \in Names
            BY <1>0, Zenon DEF ClientSound, CallSound
        <3>. QED  BY <1>0, <3>1, Zenon DEF ClientSound, ReadsSound
    <2>4. mem[c].start <= clock
        BY <1>0, Zenon DEF ClientSound, ReadsSound
    <2>. QED  BY <1>1, <2>1, <2>2, <2>3, <2>4, Zenon DEF ReadsSound
<1>5. WritesSound(c)'
    <2>1. CASE call[c].op \in Discharges /\ pc[c] \in {"apply", "charge", "commit"}
        <3>1. Row(c)' = Row(c)
            BY <1>0, <1>1, <2>1, Zenon DEF ClientSound, CallSound, Row
        <3>2. Allowed(c)' = Allowed(c) /\ NewRow(c)' = NewRow(c)
              /\ NewClaim(c, Table(call[c].op))' = NewClaim(c, Table(call[c].op))
            BY <1>1, <3>1, Zenon DEF Allowed, SettleAllowed, PartialAllowed, FinalizeAllowed,
               ReleaseAllowed, NewRow, NewClaim
        <3>. QED  BY <1>0, <1>1, <2>1, <3>2, Zenon DEF ClientSound, WritesSound
    <2>2. CASE ~ (call[c].op \in Discharges /\ pc[c] \in {"apply", "charge", "commit"})
        <3>1. pc[c] # "apply"
            BY <1>0, <2>2, Zenon DEF ClientSound, CallSound, Discharges
        <3>. QED  BY <1>0, <1>1, <2>2, <3>1, Zenon DEF ClientSound, WritesSound
    <2>. QED  BY <2>1, <2>2, Zenon
<1>6. RetriesSound(c)'
    <2>1. ASSUME mem[c].done, pc[c] # "idle" PROVE Done(call[c])'
        <3>1. Done(call[c]) /\ call[c].name \in Names
            BY <1>0, <2>1, Zenon DEF ClientSound, RetriesSound, CallSound
        <3>2. CASE call[c].op \in Reserves
            BY <1>1, <3>1, <3>2, ZenonT(30) DEF Done, SameRow
        <3>3. CASE call[c].op \notin Reserves
            BY <1>1, <3>1, <3>3, Zenon DEF Done, Existing
        <3>. QED  BY <3>2, <3>3, Zenon
    <2>. QED  BY <1>0, <1>1, <2>1, Zenon DEF ClientSound, RetriesSound
<1>. QED  BY <1>2, <1>3, <1>4, <1>5, <1>6, Zenon DEF ClientSound

\* A call that was carried out before ends only with its answer, or with the transaction.
LEMMA RetryStep ==
    ASSUME ReserverInv, ReserverNext, NEW c \in Clients, mem[c].done, pc[c] # "idle",
           pc'[c] = "idle"
    PROVE  result'[c] \in {"ok", "lost"}
<1>0. /\ ClientSound(c) /\ Done(call[c])
      /\ call[c].op \in Reserves => pc[c] \in {"verify", "credit", "lookup"}
      /\ call[c].op \in Discharges => pc[c] \notin {"apply", "charge"}
      /\ call[c].op \in Reserves \/ call[c].op \in Discharges
    BY Zenon DEF ReserverInv, ClientSound, RetriesSound, CallSound, Discharges
<1>1. ASSUME NEW res, End(c, res) PROVE result'[c] = res
    BY <1>1, Zenon DEF End, ReserverInv, Shape
<1>2. ASSUME NEW l, Quiet(c, l) PROVE l = "idle"
    BY <1>2, Zenon DEF Quiet, Goto, ReserverInv, Shape
<1>3. ASSUME NEW d \in Clients, d # c, Begin(d) \/ Sweep(d) \/ Step(d) \/ Die(d)
      PROVE  FALSE
    <2>1. \E l : Goto(d, l)
        BY <1>3, Zenon DEF Begin, Sweep, Step, Die, Reserve, Settle, SettlePartial,
           FinalizeSettlement, Release, Capture, Discharge, Call, End, Answer, Quiet, Verify,
           Lookup, LockIdem, LockBalance, ReadBase, InsertReservation, LockRow, Check, Apply,
           Charge, Commit
    <2>. QED  BY <1>3, <2>1, Zenon DEF Goto, ReserverInv, Shape
<1>4. ~ Tick
    BY Zenon DEF Tick
<1>5. ~ (Begin(c) \/ Sweep(c))
    BY Zenon DEF Begin, Sweep, Reserve, Settle, SettlePartial, FinalizeSettlement, Release,
       Capture, Discharge, Call
<1>6. CASE Die(c)
    BY <1>1, <1>6, Zenon DEF Die
<1>7. CASE Verify(c) \/ LockIdem(c) \/ LockBalance(c) \/ ReadBase(c) \/ LockRow(c)
    BY <1>2, <1>7, Zenon DEF Verify, LockIdem, LockBalance, ReadBase, LockRow
<1>8. CASE Lookup(c, "lookup", "idem") \/ Lookup(c, "recheck", "balance")
    <2>1. call[c].op \in Reserves
        BY <1>0, <1>8, Zenon DEF Lookup, ClientSound, CallSound
    <2>2. Row(c).status # "none" /\ SameRow(Row(c), call[c])
        BY <1>0, <2>1, Zenon DEF Done, Row
    <2>3. Answer(c, "ok")
        BY <1>8, <2>2, Zenon DEF Lookup
    <2>. QED  BY <1>1, <2>3, Zenon DEF Answer
<1>9. CASE InsertReservation(c) \/ Apply(c) \/ Charge(c)
    BY <1>0, <1>9, Zenon DEF InsertReservation, Apply, Charge, ClientSound, CallSound, Discharges
<1>10. CASE Check(c)
    <2>1. call[c].op \in Discharges /\ call[c].op \notin Reserves
        BY <1>0, <1>10, Zenon DEF Check
    <2>2. PICK m \in Existing(call[c]) : SameClaim(m, call[c])
        BY <1>0, <2>1, Zenon DEF Done
    <2>3. \A x \in Existing(call[c]) : x = m
        BY Zenon DEF Existing, ReserverInv, AppliedOnce
    <2>4. Quiet(c, "commit")
        BY <1>10, <2>2, <2>3, Zenon DEF Check
    <2>. QED  BY <1>2, <2>4, Zenon
<1>11. CASE Commit(c)
    BY <1>1, <1>11, Zenon DEF Commit
<1>. QED  BY <1>3, <1>4, <1>5, <1>6, <1>7, <1>8, <1>9, <1>10, <1>11, Zenon DEF ReserverNext, Step

-------------------------------------------------------------------------------
\* What is covered, and the theorems.

\* What may still be taken, summed up.
LEMMA HoldsInt == ReserverInv => Holds \in Int
BY HoldNat, SumInt, ReserverAssumption DEF Holds

\* Holds that fall one by one fall together.
LEMMA HoldsFall ==
    ASSUME \A r \in Names : Hold(r) \in Nat /\ Hold(r)' \in Nat /\ Hold(r)' <= Hold(r)
    PROVE  Holds' <= Holds /\ Holds \in Int /\ Holds' \in Int
<1> DEFINE f == [r \in Names |-> Hold(r)]
           g == [r \in Names |-> Hold(r)']
<1>1. \A r \in Names : f[r] \in Int /\ g[r] \in Int /\ g[r] <= f[r]
    OBVIOUS
<1>2. Holds = SumFunctionOnSet(f, Names) /\ Holds' = SumFunctionOnSet(g, Names)
    BY Zenon DEF Holds
<1>. HIDE DEF f, g
<1>3. SumFunctionOnSet(g, Names) <= SumFunctionOnSet(f, Names)
    BY <1>1, SumLeq, ReserverAssumption, Zenon
<1>4. SumFunctionOnSet(f, Names) \in Int /\ SumFunctionOnSet(g, Names) \in Int
    BY <1>1, SumInt, ReserverAssumption, Zenon
<1>. QED  BY <1>2, <1>3, <1>4, Zenon

\* A step that readies no reservation and only lets go keeps the rest covered.
LEMMA CalmCovered ==
    ASSUME ReserverInv, CalmStep, NoneReadied
    PROVE  ReserverInv'
<1>1. Holds' <= Holds /\ Holds \in Int /\ Holds' \in Int
    BY HoldsFall, Zenon DEF CalmStep
<1>2. bal' = bal /\ bal \in Int /\ Covered
    BY Zenon DEF CalmStep, ReserverInv, Shape
<1>3. ASSUME NEW c \in Clients, pc'[c] = "commit", call'[c].op \in Reserves
      PROVE  Holds' + call'[c].amt <= bal'
    <2>1. Holds + call[c].amt <= bal /\ call'[c] = call[c]
        BY <1>2, <1>3, Zenon DEF NoneReadied, Covered
    <2>2. call[c].amt \in Nat
        BY <1>3, Zenon DEF NoneReadied, ReserverInv, ClientSound, CallSound
    <2>. QED  BY <1>1, <1>2, <2>1, <2>2
<1>4. Covered'
    BY <1>1, <1>2, <1>3 DEF Covered
<1>. QED  BY <1>4, Zenon DEF CalmStep, ReserverInv

\* The first state.
LEMMA ReserverInitInv == ReserverInit => ReserverInv
<1> SUFFICES ASSUME ReserverInit PROVE ReserverInv
    BY Zenon
<1>1. Shape
    <2>1. NoRow \in Rows /\ NoMem \in Mems
        BY DEF NoRow, NoMem, Rows, Mems
    <2>2. IsFiniteSet(claims)
        BY FS_EmptySet, Zenon DEF ReserverInit
    <2>. QED  BY <2>1, <2>2, ReserverAssumption DEF ReserverInit, Shape
<1>2. \A r \in Names : ClaimsOn(r) = {} /\ ReceiptsOf(r) = {} /\ resv[r] = NoRow
    BY Zenon DEF ReserverInit, ClaimsOn, ReceiptsOf, LegsOf
<1>3. RowsSound
    BY <1>2 DEF RowsSound, NoRow
<1>4. AppliedOnce
    <2>1. \A f : DOMAIN f = {} => SumFunction(f) = 0
        BY SumUnfold, FS_EmptySet, Zenon DEF SumFunction
    <2>2. \A r \in Names : resv[r].settled = SumFunction([m \in ClaimsOn(r) |-> m.amt])
        <3>. SUFFICES ASSUME NEW r \in Names
                      PROVE  resv[r].settled = SumFunction([m \in ClaimsOn(r) |-> m.amt])
            BY Zenon
        <3>1. DOMAIN [m \in ClaimsOn(r) |-> m.amt] = {} /\ resv[r].settled = 0
            BY <1>2 DEF NoRow
        <3>. QED  BY <2>1, <3>1, Zenon
    <2>3. {n \in claims : n.charged} = {}
        BY Zenon DEF ReserverInit
    <2>4. bal = Opening - SumFunction([m \in {n \in claims : n.charged} |-> m.amt])
        BY <2>1, <2>3, ReserverAssumption DEF ReserverInit
    <2>. QED  BY <2>2, <2>4, Zenon DEF AppliedOnce, ReserverInit
<1>5. KeysApart
    BY Zenon DEF KeysApart, ReserverInit, NoWrite
<1>6. Covered
    <2>1. \A r \in Names : [s \in Names |-> Hold(s)][r] = 0
        BY ReserverAssumption, <1>2, Zenon DEF Hold, Unexpired, NoRow, ReserverInit
    <2>2. Holds = 0
        <3> DEFINE z == [r \in Names |-> Hold(r)]
        <3>1. SumFunctionOnSet(z, {}) = 0 /\ {} \in SUBSET Names
            BY SumUnfold, FS_EmptySet, Zenon
        <3>2. \A r \in Names : z[r] = 0
            BY <2>1, Zenon
        <3>. HIDE DEF z
        <3>3. SumFunctionOnSet(z, {}) = SumFunctionOnSet(z, Names)
            BY <3>1, <3>2, SumSubset, ReserverAssumption
        <3>. QED  BY <3>1, <3>3, Zenon DEF Holds, z
    <2>. QED  BY <2>2, ReserverAssumption DEF Covered, ReserverInit
<1>7. ASSUME NEW c \in Clients PROVE ClientSound(c)
    <2>1. pc[c] = "idle" /\ call[c] = NoCall /\ mem[c] = NoMem /\ pend[c] = NoWrite /\ clock = 0
        BY Zenon DEF ReserverInit
    <2>2. ReadsSound(c)
        BY <1>2, <2>1 DEF ReadsSound, NoMem, NoCall, NoRow, Outstanding, Reserves
    <2>. QED  BY <2>1, <2>2, Zenon DEF ClientSound, CallSound, LocksHeld, WritesSound, RetriesSound,
                  NoCall, Reserves, Captures, Discharges
<1>. QED  BY <1>1, <1>3, <1>4, <1>5, <1>6, <1>7, Zenon DEF ReserverInv

\* What Reserve subtracts is at least what may still be taken: under the balance lock no
\* capture is under way, what has expired since the call began has expired still, and the
\* credits it read are not above what has been released.
LEMMA HeldEnough ==
    ASSUME ReserverInv, NEW d \in Clients, pc[d] = "held"
    PROVE  Held(d) \in Int /\ Holds <= Held(d) /\ Holds \in Int
<1>0. IsFiniteSet(Names) /\ NoClient \notin Clients
    BY ReserverAssumption, Zenon
<1>1. ClientSound(d) /\ mem[d] \in Mems /\ clock \in Nat /\ Holds \in Int
    BY HoldsInt, Zenon DEF ReserverInv, Shape
<1>2. call[d].op \in Reserves /\ balLock = d
    BY <1>1, Zenon DEF ClientSound, CallSound, LocksHeld, Reserves
<1>3. \A c \in Clients, r \in Names : ~ Charging(c, r)
    <2>. SUFFICES ASSUME NEW c \in Clients, NEW r \in Names, Charging(c, r) PROVE FALSE
        BY Zenon
    <2>1. balLock = c
        BY ChargeFits, Zenon
    <2>2. call[c].op \in Captures
        BY Zenon DEF Charging
    <2>. QED  BY <1>2, <2>1, <2>2, Zenon DEF Reserves, Captures
<1> DEFINE h == [r \in Names |-> Hold(r)]
           o == [r \in Names |-> Outstanding(resv[r])]
           U == Unexpired(mem[d].start)
<1>4. \A r \in Names : /\ h[r] = IF r \in Unexpired(clock) THEN o[r] ELSE 0
                       /\ h[r] \in Int /\ o[r] \in Nat /\ o[r] <= resv[r].amt
                       /\ resv[r].amt \in Nat /\ h[r] <= o[r]
    <2>. SUFFICES ASSUME NEW r \in Names
                  PROVE  /\ h[r] = IF r \in Unexpired(clock) THEN o[r] ELSE 0
                         /\ o[r] \in Nat /\ o[r] <= resv[r].amt /\ resv[r].amt \in Nat
        OBVIOUS
    <2>1. Outstanding(resv[r]) \in Nat /\ Outstanding(resv[r]) <= resv[r].amt
          /\ resv[r].amt \in Nat
        BY OutstandingNat, Zenon DEF ReserverInv, Shape, RowsSound, Rows
    <2>2. Hold(r) = IF r \in Unexpired(clock) THEN Outstanding(resv[r]) ELSE 0
        BY <1>3, Zenon DEF Hold
    <2>. QED  BY <2>1, <2>2, Zenon
<1>5. U \in SUBSET Names /\ Unexpired(clock) \subseteq U /\ IsFiniteSet(U)
    <2>1. mem[d].start \in Nat /\ mem[d].start <= clock
        BY <1>1, Zenon DEF Mems, ClientSound, ReadsSound
    <2>2. \A r \in Names : resv[r].exp \in Nat
        BY Zenon DEF ReserverInv, Shape, Rows
    <2>3. U \in SUBSET Names /\ Unexpired(clock) \subseteq U
        BY <1>1, <2>1, <2>2 DEF Unexpired
    <2>. QED  BY <1>0, <2>3, FS_Subset, Zenon
<1>6. Holds = SumFunctionOnSet(h, Names)
    BY Zenon DEF Holds
<1>. HIDE DEF h, o, U
<1>7. SumFunctionOnSet(h, U) = SumFunctionOnSet(h, Names)
    <2>1. \A r \in Names \ U : h[r] = 0
        BY <1>4, <1>5, Zenon
    <2>. QED  BY <1>0, <1>4, <1>5, <2>1, SumSubset
<1>8. CASE call[d].op # "gated"
    <2>1. Held(d) = SumFunctionOnSet(o, Names)
        BY <1>8, Zenon DEF Held, SumActive, SumFunction, o
    <2>2. SumFunctionOnSet(h, Names) <= SumFunctionOnSet(o, Names)
        BY <1>0, <1>4, SumLeq
    <2>3. SumFunctionOnSet(o, Names) \in Int
        BY <1>0, <1>4, SumInt
    <2>. QED  BY <1>1, <1>6, <2>1, <2>2, <2>3, Zenon
<1>9. ASSUME NEW g, Held(d) = SumFunctionOnSet(g, U),
             \A r \in U : g[r] \in Int /\ o[r] <= g[r]
      PROVE  Held(d) \in Int /\ Holds <= Held(d)
    <2>1. \A r \in U : h[r] \in Int /\ g[r] \in Int /\ h[r] <= g[r]
        BY <1>4, <1>5, <1>9
    <2>2. SumFunctionOnSet(h, U) <= SumFunctionOnSet(g, U)
        BY <1>5, <2>1, SumLeq, Zenon
    <2>3. SumFunctionOnSet(g, U) \in Int
        BY <1>5, <1>9, SumInt, Zenon
    <2>. QED  BY <1>6, <1>7, <1>9, <2>2, <2>3, Zenon
<1>10. CASE call[d].op = "gated" /\ ~ Signing
    <2> DEFINE g == [r \in U |-> resv[r].amt]
    <2>1. Held(d) = SumFunctionOnSet(g, U)
        BY <1>10, Zenon DEF Held, SumHoldsIgnoringDischarge, SumFunction, U
    <2>2. \A r \in U : g[r] \in Int /\ o[r] <= g[r]
        BY <1>4, <1>5
    <2>. HIDE DEF g
    <2>. QED  BY <1>1, <1>9, <2>1, <2>2, Zenon
<1>11. CASE call[d].op = "gated" /\ Signing
    <2> DEFINE g == [r \in U |-> IF resv[r].amt > mem[d].credit[r]
                                 THEN resv[r].amt - mem[d].credit[r] ELSE 0]
    <2>1. Held(d) = SumFunctionOnSet(g, U)
        BY <1>11, Zenon DEF Held, SumHoldsNetOfVerifiedDischarge, SumFunction, U
    <2>2. \A r \in U : g[r] \in Int /\ o[r] <= g[r]
        <3>1. \A r \in Names : mem[d].credit[r] \in Nat /\ mem[d].credit[r] + o[r] <= resv[r].amt
            BY <1>1, Zenon DEF Mems, ClientSound, ReadsSound, o
        <3>. QED  BY <1>4, <1>5, <3>1
    <2>. HIDE DEF g
    <2>. QED  BY <1>1, <1>9, <2>1, <2>2, Zenon
<1>. QED  BY <1>1, <1>8, <1>10, <1>11, Zenon

\* A reservation is made ready only when it is covered.
LEMMA InsertInv ==
    ASSUME ReserverInv, NEW d \in Clients, InsertReservation(d)
    PROVE  ReserverInv'
<1>0. pc[d] = "held"
    BY Zenon DEF InsertReservation
<1>1. CASE Answer(d, "insufficient")
    BY <1>1, AnswerInv, CalmCovered, Zenon DEF Answer
<1>2. CASE /\ mem[d].base - Held(d) >= call[d].amt
           /\ pend' = [pend EXCEPT ![d].row = NewReservation(d)]
           /\ Goto(d, "commit")
           /\ UNCHANGED <<clock, dbVars, lockVars, call, mem, result, calls, faults>>
    <2>1. /\ pc'[d] = "commit" /\ call' = call /\ mem' = mem
          /\ clock' = clock /\ bal' = bal /\ resv' = resv /\ claims' = claims
          /\ balLock' = balLock /\ idemLock' = idemLock /\ rowLock' = rowLock
          /\ ClientSound(d) /\ clock \in Nat /\ bal \in Int /\ mem[d] \in Mems
        BY <1>2, Zenon DEF Goto, dbVars, lockVars, ReserverInv, Shape
    <2>2. pend[d] = NoWrite /\ call[d].op \in Reserves /\ call[d].op \notin Captures
          /\ call[d].op \notin Discharges /\ call[d].amt \in Nat /\ call[d].ttl \in Nat
          /\ ~ mem[d].done
        BY <1>0, <2>1, Zenon DEF ClientSound, CallSound, WritesSound, RetriesSound, Reserves, Captures,
           Discharges
    <2>3. pend'[d].row = NewReservation(d) /\ pend'[d].claim = {}
        BY <1>2, <2>2 DEF NoWrite, ReserverInv, Shape
    <2>4. NewReservation(d) \in Rows /\ NewReservation(d).status = "active"
          /\ NewReservation(d).amt = call[d].amt /\ NewReservation(d).settled = 0
        BY <2>1, <2>2 DEF NewReservation, Rows, Live
    <2>5. CallSound(d)' /\ LocksHeld(d)'
        BY <1>0, <2>1, <2>2, Zenon DEF ClientSound, CallSound, LocksHeld
    <2>6. WritesSound(d)'
        BY <2>1, <2>2, <2>3, <2>4, Zenon DEF WritesSound
    <2>7. ReadsSound(d)' /\ RetriesSound(d)'
        BY <1>0, <2>1, <2>2, Zenon DEF ClientSound, ReadsSound, RetriesSound
    <2>8. ClientSound(d)'
        BY <2>5, <2>6, <2>7, Zenon DEF ClientSound
    <2>9. Others(d) /\ UNCHANGED <<clock, dbVars>>
        BY <1>2, <2>1, Zenon DEF Goto, Others, Kept, ReserverInv, Shape
    <2>10. KeysApart'
        <3>1. \A c \in Clients : pend'[c].claim = {} \/ (pend'[c] = pend[c] /\ pc'[c] = pc[c])
            <4>. SUFFICES ASSUME NEW c \in Clients
                          PROVE  pend'[c].claim = {} \/ (pend'[c] = pend[c] /\ pc'[c] = pc[c])
                BY Zenon
            <4>1. CASE c = d
                BY <2>3, <4>1, Zenon
            <4>. QED  BY <2>9, <4>1, Zenon DEF Others
        <3>. QED  BY <2>1, <3>1, ZenonT(30) DEF ReserverInv, KeysApart
    <2>11. StillCharging(d)
        BY <2>1, <2>2, Zenon DEF StillCharging, Charging
    <2>12. Shape'
        BY <1>2, <2>1, Zenon DEF Goto, ReserverInv, Shape
    <2>13. Holds + call'[d].amt <= bal
        <3>1. Held(d) \in Int /\ Holds <= Held(d) /\ Holds \in Int
            BY <1>0, HeldEnough, Zenon
        <3>2. mem[d].base \in Int /\ mem[d].base <= bal
            BY <1>0, <2>1, Zenon DEF Mems, ClientSound, ReadsSound
        <3>. QED  BY <1>2, <2>1, <2>2, <3>1, <3>2
    <2>14. CalmStep
        BY <2>8, <2>9, <2>10, <2>11, <2>12, CalmInv, Zenon
    <2>15. Holds' <= Holds /\ Holds \in Int /\ Holds' \in Int
        BY <2>14, HoldsFall, Zenon DEF CalmStep
    <2>16. Covered'
        <3>1. Holds <= bal /\ balLock = d
            BY <1>0, <2>1, <2>2, Zenon DEF ReserverInv, Covered, ClientSound, LocksHeld
        <3>2. ASSUME NEW c \in Clients, pc'[c] = "commit", call'[c].op \in Reserves PROVE c = d
            <4>1. c # d => pc[c] = "commit" /\ call[c].op \in Reserves
                BY <2>9, <3>2, Zenon DEF Others
            <4>2. c # d => balLock = c
                BY <4>1, Zenon DEF ReserverInv, ClientSound, LocksHeld
            <4>. QED  BY <3>1, <4>2, Zenon
        <3>. QED  BY <2>1, <2>2, <2>13, <2>15, <3>1, <3>2 DEF Covered
    <2>. QED  BY <2>14, <2>16, Zenon DEF CalmStep, ReserverInv
<1>. QED  BY <1>1, <1>2, Zenon DEF InsertReservation

\* What may still be taken, after a commit by d that writes the row n.
LEMMA HoldsCommit ==
    ASSUME ReserverInv, NEW d \in Clients, Others(d), pc'[d] = "idle", clock' = clock,
           NEW n \in Names, NEW x \in Int, \A r \in Names \ {n} : resv'[r] = resv[r],
           Hold(n)' \in Nat, Hold(n)' <= Hold(n) + x
    PROVE  Holds' \in Int /\ Holds \in Int /\ Holds' <= Holds + x
<1> DEFINE f == [r \in Names |-> Hold(r)]
           h == [r \in Names |-> IF r = n THEN Hold(n) + x ELSE Hold(r)]
           g == [r \in Names |-> Hold(r)']
<1>0. IsFiniteSet(Names) /\ NoClient \notin Clients
    BY ReserverAssumption, Zenon
<1>1. \A r \in Names : Hold(r) \in Nat
    BY HoldNat, Zenon
<1>2. ASSUME NEW r \in Names \ {n} PROVE Hold(r)' \in Nat /\ Hold(r)' <= Hold(r)
    <2>1. resv'[r] = resv[r] /\ (r \in Unexpired(clock)' <=> r \in Unexpired(clock))
        BY Zenon DEF Unexpired
    <2>2. CASE r \in Unexpired(clock)
        BY <1>1, <2>1, <2>2, SMTT(30) DEF Hold
    <2>3. CASE r \notin Unexpired(clock) /\ ~ (rowLock'[r] \in Clients /\ Charging(rowLock[r], r)')
        BY <1>1, <2>1, <2>3, SMTT(30) DEF Hold, Charging
    <2>4. CASE r \notin Unexpired(clock) /\ rowLock'[r] \in Clients /\ Charging(rowLock[r], r)'
        <3> DEFINE c == rowLock'[r]
        <3>1. c # d /\ c \in Clients
            BY <2>4, Zenon DEF Charging
        <3>2. rowLock[r] = c /\ pc'[c] = pc[c] /\ call'[c] = call[c] /\ pend'[c] = pend[c]
            BY <1>0, <3>1, Zenon DEF Others, Kept
        <3>3. Charging(c, r)
            BY <2>4, <3>2, Zenon DEF Charging
        <3>4. Hold(r)' = call'[c].amt
            BY <2>1, <2>4, Zenon DEF Hold, Charging
        <3>5. Hold(r) = call[c].amt
            BY <2>4, <3>1, <3>2, <3>3, Zenon DEF Hold
        <3>. QED  BY <1>1, <3>2, <3>4, <3>5
    <2>. QED  BY <2>2, <2>3, <2>4, Zenon
<1>3. \A r \in Names : f[r] \in Int /\ g[r] \in Int /\ h[r] \in Int /\ g[r] <= h[r]
    BY <1>1, <1>2
<1>4. f[n] = Hold(n) /\ h[n] = Hold(n) + x /\ \A r \in Names \ {n} : f[r] = h[r]
    BY Zenon
<1>5. Holds = SumFunctionOnSet(f, Names) /\ Holds' = SumFunctionOnSet(g, Names)
    BY Zenon DEF Holds
<1>. HIDE DEF f, g, h
<1>6. SumFunctionOnSet(g, Names) <= SumFunctionOnSet(h, Names)
    BY <1>0, <1>3, SumLeq, Zenon
<1>7. SumFunctionOnSet(h, Names) = SumFunctionOnSet(f, Names) - f[n] + h[n]
    <2>1. /\ \A r \in Names : f[r] \in Int /\ h[r] \in Int
          /\ \A r \in Names \ {n} : f[r] = h[r]
        BY <1>3, <1>4, Zenon
    <2>. QED  BY <1>0, <2>1, SumChange
<1>8. SumFunctionOnSet(f, Names) \in Int /\ SumFunctionOnSet(g, Names) \in Int
    BY <1>0, <1>3, SumInt, Zenon
<1>. QED  BY <1>1, <1>4, <1>5, <1>6, <1>7, <1>8

\* One more claim adds its amount.
LEMMA AmountsAdd ==
    ASSUME NEW S, IsFiniteSet(S), NEW x, x \notin S, \A m \in S \cup {x} : m.amt \in Nat
    PROVE  SumFunction([m \in S \cup {x} |-> m.amt])
              = SumFunction([m \in S |-> m.amt]) + x.amt
<1> DEFINE f == [m \in S |-> m.amt]
           g == [m \in S \cup {x} |-> m.amt]
<1>1. SumFunction(f) = SumFunctionOnSet(f, S) /\ SumFunction(g) = SumFunctionOnSet(g, S \cup {x})
    BY Zenon DEF SumFunction
<1>2. /\ \A m \in S : f[m] \in Int /\ f[m] = g[m]
      /\ \A m \in S \cup {x} : g[m] \in Int
      /\ g[x] = x.amt /\ x.amt \in Int
    OBVIOUS
<1>. HIDE DEF f, g
<1>3. SumFunctionOnSet(f, S) = SumFunctionOnSet(g, S)
    BY <1>2, SumSame, Zenon
<1>4. SumFunctionOnSet(g, S \cup {x}) = g[x] + SumFunctionOnSet(g, S)
    BY <1>2, SumAdd, Zenon
<1>5. SumFunctionOnSet(f, S) \in Int
    BY <1>2, SumInt, Zenon
<1>6. SumFunction(g) = SumFunction(f) + x.amt
    BY <1>1, <1>2, <1>3, <1>4, <1>5
<1>. QED  BY <1>6, Zenon DEF f, g

\* A reservation is committed: no other call of its key can have written it, and it was
\* covered when it was made ready.
LEMMA CommitReserve ==
    ASSUME ReserverInv, NEW d \in Clients, Commit(d), call[d].op \in Reserves
    PROVE  ReserverInv'
<1>0. PICK res \in {"ok", "lost"} : End(d, res)
    BY Zenon DEF Commit
<1>1. Others(d) /\ pc'[d] = "idle" /\ call'[d] = NoCall /\ mem'[d] = NoMem /\ pend'[d] = NoWrite
    BY <1>0, EndOthers, Zenon DEF ReserverInv
<1>2. PICK n \in Names : /\ n = call[d].name /\ ClientSound(d) /\ pc[d] = "commit"
                        /\ clock \in Nat /\ bal \in Int /\ d # NoClient
    BY ReserverAssumption, Zenon DEF Commit, ReserverInv, ClientSound, CallSound, Shape
<1>3. pend[d].claim = {} /\ pend[d].row \in Rows /\ pend[d].row.status = "active"
      /\ pend[d].row.amt = call[d].amt /\ pend[d].row.settled = 0 /\ call[d].amt \in Nat
    BY <1>2, Zenon DEF ClientSound, WritesSound, CallSound
<1>4. claims' = claims /\ bal' = bal /\ resv' = [resv EXCEPT ![n] = pend[d].row] /\ clock' = clock
    BY <1>2, <1>3, Zenon DEF Commit
<1>5. idemLock[n] = d /\ balLock = d /\ resv[n].status = "none"
    BY <1>2, Zenon DEF ClientSound, LocksHeld, ReadsSound
<1>6. resv[n] \in Rows /\ resv[n].amt = 0 /\ resv[n].settled = 0 /\ ClaimsOn(n) = {}
    BY <1>2, <1>5, Zenon DEF ReserverInv, RowsSound, Shape
<1>7. resv'[n] = pend[d].row /\ \A r \in Names \ {n} : resv'[r] = resv[r]
    BY <1>2, <1>4, Zenon DEF ReserverInv, Shape
<1>8. Shape'
    <2>1. NoMem \in Mems
        BY DEF NoMem, Mems
    <2>. QED  BY <1>0, <1>2, <1>3, <1>4, <2>1, Zenon DEF ReserverInv, Shape, End, Goto
<1>9. \A r \in Names : ClaimsOn(r)' = ClaimsOn(r) /\ ReceiptsOf(r)' = ReceiptsOf(r)
    BY <1>4, Zenon DEF ClaimsOn, ReceiptsOf, LegsOf
<1>10. RowsSound'
    <2>. SUFFICES ASSUME NEW r \in Names
                  PROVE  /\ resv'[r].settled <= resv'[r].amt
                         /\ resv'[r].status = "none" => resv'[r].amt = 0
                         /\ resv'[r].status \in {"none", "active"} =>
                               resv'[r].settled = 0 /\ ClaimsOn(r)' = {}
                         /\ ReceiptsOf(r)' # {} => resv'[r].status \in Terminal
        BY Zenon DEF RowsSound
    <2>1. CASE r = n
        <3>1. ReceiptsOf(n) = {}
            BY <1>6, Zenon DEF ClaimsOn
        <3>. QED  BY <1>3, <1>6, <1>7, <1>9, <2>1, <3>1
    <2>2. CASE r # n
        BY <1>7, <1>9, <2>2, Zenon DEF ReserverInv, RowsSound
    <2>. QED  BY <2>1, <2>2, Zenon
<1>11. AppliedOnce'
    <2>1. \A r \in Names : resv'[r].settled = resv[r].settled
        BY <1>3, <1>6, <1>7, Zenon
    <2>2. \A r \in Names : resv'[r].settled = SumFunction([m \in ClaimsOn(r)' |-> m.amt])
        BY <1>9, <2>1, Zenon DEF ReserverInv, AppliedOnce
    <2>3. \A x, y \in claims :
             x.key = y.key /\ (x.table = y.table \/ (x.charged /\ y.charged)) => x = y
        BY Zenon DEF ReserverInv, AppliedOnce
    <2>4. bal = Opening - SumFunction([m \in {y \in claims : y.charged} |-> m.amt])
        BY Zenon DEF ReserverInv, AppliedOnce
    <2>. QED  BY <1>4, <2>2, <2>3, <2>4, Zenon DEF AppliedOnce
<1>12. KeysApart'
    BY <1>1, <1>3, <1>4, KeysCommit, Zenon
<1>13. ClientSound(d)'
    BY <1>1, <1>8, <1>10, IdleSound, Zenon
<1>14. ASSUME NEW c \in Clients \ {d} PROVE ClientSound(c)'
    <2>1. Outstanding(resv'[n]) = call[d].amt /\ Outstanding(resv[n]) = 0
        BY <1>3, <1>5, <1>7, Zenon DEF Outstanding
    <2>2. ClientSound(c) /\ c # d
        BY Zenon DEF ReserverInv
    <2>3. call[c].op \in Reserves /\ pc[c] \in {"balance", "base", "held", "commit"} =>
             call[c].name # n
        BY <1>5, <2>2, Zenon DEF ClientSound, LocksHeld
    <2>4. call[c].op \in Discharges /\ pc[c] \in {"apply", "charge", "commit"} =>
             call[c].name # n
        BY <1>5, <2>2, Zenon DEF ClientSound, CallSound, Discharges, Captures, Reserves
    <2>5. /\ resv[n].amt + Outstanding(resv'[n]) <= resv'[n].amt + Outstanding(resv[n])
          /\ Outstanding(resv'[n]) \in Nat /\ resv'[n].status # "none"
        BY <1>3, <1>6, <1>7, <2>1, SMTT(30)
    <2>. QED  BY <1>1, <1>4, <1>5, <1>7, <1>8, <2>3, <2>4, <2>5, WriteSound, ZenonT(30)
<1>15. Covered'
    <2>1. Hold(n) \in Nat
        BY <1>2, HoldNat, Zenon
    <2>2. Hold(n)' \in Nat /\ Hold(n)' <= call[d].amt
        <3>1. ASSUME NEW c \in Clients PROVE ~ Charging(c, n)'
            <4>1. CASE c = d
                BY <1>1, <4>1, Zenon DEF Charging
            <4>2. CASE c # d
                <5>1. Charging(c, n)' <=> Charging(c, n)
                    BY <1>1, <4>2, Zenon DEF Charging, Others
                <5>2. Charging(c, n) => resv[n].status # "none"
                    BY Zenon DEF Charging, ReserverInv, ClientSound, CallSound, Captures, Reserves
                <5>. QED  BY <1>5, <5>1, <5>2, Zenon
            <4>. QED  BY <4>1, <4>2, Zenon
        <3>2. Hold(n)' = IF n \in Unexpired(clock)' THEN Outstanding(resv'[n]) ELSE 0
            BY <3>1, Zenon DEF Hold, Charging
        <3>3. Outstanding(resv'[n]) = call[d].amt
            BY <1>3, <1>7, ZenonT(30) DEF Outstanding
        <3>. QED  BY <1>3, <3>2, <3>3
    <2>3. Holds' \in Int /\ Holds \in Int /\ Holds' <= Holds + call[d].amt
        BY <1>1, <1>2, <1>3, <1>4, <1>7, <2>1, <2>2, HoldsCommit
    <2>4. Holds + call[d].amt <= bal
        BY <1>2, Zenon DEF ReserverInv, Covered
    <2>5. ASSUME NEW c \in Clients, pc'[c] = "commit", call'[c].op \in Reserves PROVE FALSE
        <3>1. c # d
            BY <1>1, <2>5, Zenon
        <3>2. balLock = c
            BY <1>1, <2>5, <3>1, Zenon DEF Others, ReserverInv, ClientSound, LocksHeld
        <3>. QED  BY <1>5, <3>1, <3>2, Zenon
    <2>. QED  BY <1>2, <1>3, <1>4, <2>3, <2>4, <2>5 DEF Covered
<1>. QED  BY <1>8, <1>10, <1>11, <1>12, <1>13, <1>14, <1>15, Zenon DEF ReserverInv

\* A discharge is committed: its amount leaves what is held as it leaves the balance.
LEMMA CommitDischarge ==
    ASSUME ReserverInv, NEW d \in Clients, Commit(d), call[d].op \in Discharges,
           pend[d] # NoWrite
    PROVE  ReserverInv'
<1>0. PICK res \in {"ok", "lost"} : End(d, res)
    BY Zenon DEF Commit
<1>1. Others(d) /\ pc'[d] = "idle" /\ call'[d] = NoCall /\ mem'[d] = NoMem /\ pend'[d] = NoWrite
    BY <1>0, EndOthers, Zenon DEF ReserverInv
<1>2. PICK n \in Names, a \in Nat :
         /\ n = call[d].name /\ a = call[d].amt /\ ClientSound(d) /\ pc[d] = "commit"
         /\ clock \in Nat /\ bal \in Int /\ d # NoClient
    BY ReserverAssumption, Zenon DEF Commit, ReserverInv, ClientSound, CallSound, Shape
<1>3. PICK new, x : /\ new = NewRow(d) /\ x = NewClaim(d, Table(call[d].op))
                    /\ Allowed(d) /\ pend[d] = [row |-> new, claim |-> {x}]
    BY <1>2, Zenon DEF ClientSound, WritesSound
<1>4. /\ resv[n] \in Rows /\ new \in Rows /\ resv[n].status \in Live
      /\ new.amt = resv[n].amt /\ new.ttl = resv[n].ttl /\ new.exp = resv[n].exp
      /\ new.status \in {"settled", "settling", "released"}
      /\ new.settled <= new.amt /\ new.settled = resv[n].settled + a
      /\ Outstanding(new) \in Nat /\ Outstanding(new) + a <= Outstanding(resv[n])
      /\ Table(call[d].op) # "legs" => new.status \in Terminal
    BY <1>2, <1>3, DischargedRow, Zenon
<1>5. x.name = n /\ x.amt = a /\ x.table = Table(call[d].op) /\ x.key = call[d].key
      /\ x.charged = (call[d].op \in Captures) /\ x.table \in {"receipts", "legs"}
    BY <1>2, <1>3, Zenon DEF NewClaim, Table
<1>6. /\ claims' = claims \cup {x} /\ resv' = [resv EXCEPT ![n] = new] /\ clock' = clock
      /\ bal' = IF x.charged THEN bal - a ELSE bal
    <2>1. pend[d].row = new /\ pend[d].claim = {x} /\ new.status # "none"
        BY <1>3, <1>4
    <2>2. /\ claims' = claims \cup pend[d].claim /\ clock' = clock
          /\ pend[d].row.status # "none" => resv' = [resv EXCEPT ![call[d].name] = pend[d].row]
          /\ bal' = IF \E m \in pend[d].claim : m.charged THEN bal - call[d].amt ELSE bal
        BY Zenon DEF Commit
    <2>. QED  BY <1>2, <2>1, <2>2, Zenon
<1>7. resv'[n] = new /\ \A r \in Names \ {n} : resv'[r] = resv[r]
    BY <1>2, <1>6, Zenon DEF ReserverInv, Shape
<1>8. rowLock[n] = d /\ rowLock'[n] = NoClient
      /\ (x.charged => balLock = d)
    <2>1. rowLock[n] = d /\ (x.charged => balLock = d)
        BY <1>2, <1>5, Zenon DEF ClientSound, LocksHeld
    <2>. QED  BY <1>0, <2>1, Zenon DEF End
<1>9. /\ x \notin claims
      /\ \A m \in claims : m.key = x.key => m.table # x.table
      /\ x.charged => \A m \in claims : m.charged => m.key # x.key
    <2>1. x \in pend[d].claim
        BY <1>3
    <2>. QED  BY <1>2, <2>1, ZenonT(30) DEF ReserverInv, KeysApart
<1>10. Shape'
    <2>1. NoMem \in Mems
        BY DEF NoMem, Mems
    <2>2. resv' \in [Names -> Rows] /\ bal' \in Int
        BY <1>2, <1>4, <1>6 DEF ReserverInv, Shape
    <2>3. IsFiniteSet(claims')
        BY <1>6, FS_AddElement, Zenon DEF ReserverInv, Shape
    <2>4. \A m \in claims' : m.amt \in Nat /\ m.table \in {"receipts", "legs"}
        BY <1>2, <1>5, <1>6, Zenon DEF ReserverInv, Shape
    <2>5. /\ idemLock' = [k \in Names \cup OpKeys |-> idemLock'[k]]
          /\ rowLock'  = [r \in Names |-> rowLock'[r]]
          /\ pc'     = [c \in Clients |-> pc'[c]]
          /\ call'   = [c \in Clients |-> call'[c]]
          /\ pend'   = [c \in Clients |-> pend'[c]]
          /\ result' = [c \in Clients |-> result'[c]]
          /\ mem'    \in [Clients -> Mems]
        BY <1>0, <2>1, Zenon DEF ReserverInv, Shape, End, Goto
    <2>. QED  BY <1>2, <1>6, <2>2, <2>3, <2>4, <2>5, ZenonT(30) DEF Shape
<1>11. /\ ClaimsOn(n)' = ClaimsOn(n) \cup {x}
       /\ x.table = "legs" => ReceiptsOf(n)' = ReceiptsOf(n)
       /\ \A r \in Names \ {n} : ClaimsOn(r)' = ClaimsOn(r) /\ ReceiptsOf(r)' = ReceiptsOf(r)
    BY <1>5, <1>6, Zenon DEF ClaimsOn, ReceiptsOf, LegsOf
<1>12. RowsSound'
    <2>. SUFFICES ASSUME NEW r \in Names
                  PROVE  /\ resv'[r].settled <= resv'[r].amt
                         /\ resv'[r].status = "none" => resv'[r].amt = 0
                         /\ resv'[r].status \in {"none", "active"} =>
                               resv'[r].settled = 0 /\ ClaimsOn(r)' = {}
                         /\ ReceiptsOf(r)' # {} => resv'[r].status \in Terminal
        BY Zenon DEF RowsSound
    <2>1. CASE r = n
        <3>1. ReceiptsOf(n) = {}
            BY <1>4, Zenon DEF ReserverInv, RowsSound, Live, Terminal
        <3>2. x.table = "legs" => ReceiptsOf(r)' = {}
            BY <1>11, <2>1, <3>1, Zenon
        <3>. QED  BY <1>4, <1>5, <1>7, <2>1, <3>2, Zenon
    <2>2. CASE r # n
        BY <1>7, <1>11, <2>2, Zenon DEF ReserverInv, RowsSound
    <2>. QED  BY <2>1, <2>2, Zenon
<1>13. AppliedOnce'
    <2>0. IsFiniteSet(claims) /\ \A m \in claims \cup {x} : m.amt \in Nat
        BY <1>2, <1>5, Zenon DEF ReserverInv, Shape
    <2>1. \A m, y \in claims' :
             m.key = y.key /\ (m.table = y.table \/ (m.charged /\ y.charged)) => m = y
        <3>1. \A m, y \in claims :
                 m.key = y.key /\ (m.table = y.table \/ (m.charged /\ y.charged)) => m = y
            BY Zenon DEF ReserverInv, AppliedOnce
        <3>. QED  BY <1>6, <1>9, <3>1, Zenon
    <2>2. \A r \in Names : resv[r].settled = SumFunction([m \in ClaimsOn(r) |-> m.amt])
        BY Zenon DEF ReserverInv, AppliedOnce
    <2>3. ASSUME NEW r \in Names
          PROVE  resv'[r].settled = SumFunction([m \in ClaimsOn(r)' |-> m.amt])
        <3>1. CASE r # n
            BY <1>7, <1>11, <2>2, <3>1, Zenon
        <3>2. CASE r = n
            <4>1. ClaimsOn(n) \subseteq claims
                BY Zenon DEF ClaimsOn, ReceiptsOf, LegsOf
            <4>2. IsFiniteSet(ClaimsOn(n)) /\ x \notin ClaimsOn(n)
                BY <1>9, <2>0, <4>1, FS_Subset, Zenon
            <4>3. SumFunction([m \in ClaimsOn(n) \cup {x} |-> m.amt])
                     = SumFunction([m \in ClaimsOn(n) |-> m.amt]) + x.amt
                BY <2>0, <4>1, <4>2, AmountsAdd, Zenon
            <4>. QED  BY <1>4, <1>5, <1>7, <1>11, <2>2, <3>2, <4>3, Zenon
        <3>. QED  BY <3>1, <3>2, Zenon
    <2>4. bal' = Opening - SumFunction([m \in {y \in claims' : y.charged} |-> m.amt])
        <3> DEFINE C == {y \in claims : y.charged}
        <3>1. bal = Opening - SumFunction([m \in C |-> m.amt])
            BY Zenon DEF ReserverInv, AppliedOnce
        <3>2. IsFiniteSet(C) /\ C \subseteq claims /\ x \notin C
            BY <1>9, <2>0, FS_Subset, Zenon
        <3>3. CASE ~ x.charged
            <4>1. {y \in claims' : y.charged} = C
                BY <1>6, <3>3, ZenonT(30)
            <4>. QED  BY <1>6, <3>1, <3>3, <4>1, Zenon
        <3>4. CASE x.charged
            <4>1. {y \in claims' : y.charged} = C \cup {x}
                BY <1>6, <3>4, Zenon
            <4>2. SumFunction([m \in C \cup {x} |-> m.amt])
                     = SumFunction([m \in C |-> m.amt]) + x.amt
                BY <2>0, <3>2, AmountsAdd, Zenon
            <4>3. SumFunction([m \in C |-> m.amt]) \in Int
                <5> DEFINE f == [m \in C |-> m.amt]
                <5>1. \A m \in C : f[m] \in Int
                    BY <2>0, <3>2
                <5>2. SumFunction(f) = SumFunctionOnSet(f, C)
                    BY Zenon DEF SumFunction
                <5>. HIDE DEF f
                <5>3. SumFunctionOnSet(f, C) \in Int
                    BY <3>2, <5>1, SumInt, ZenonT(30)
                <5>. QED  BY <5>2, <5>3, Zenon DEF f
            <4>4. Opening \in Int
                BY ReserverAssumption
            <4>. HIDE DEF C
            <4>. QED  BY <1>2, <1>5, <1>6, <3>1, <3>4, <4>1, <4>2, <4>3, <4>4, SMTT(30)
        <3>. QED  BY <3>3, <3>4, Zenon
    <2>. QED  BY <2>1, <2>3, <2>4, Zenon DEF AppliedOnce
<1>14. KeysApart'
    <2>1. claims' = claims \cup pend[d].claim
        BY <1>3, <1>6
    <2>. QED  BY <1>1, <2>1, KeysCommit, ZenonT(30)
<1>15. ClientSound(d)'
    BY <1>1, <1>10, <1>12, IdleSound, Zenon
<1>16. ASSUME NEW c \in Clients \ {d} PROVE ClientSound(c)'
    <2>1. ClientSound(c) /\ c # d /\ resv[n].status # "none" /\ new.status # "none"
        BY <1>4, Zenon DEF ReserverInv, Live
    <2>2. call[c].op \in Reserves /\ pc[c] \in {"balance", "base", "held", "commit"} =>
             call[c].name # n
        BY <2>1, Zenon DEF ClientSound, ReadsSound
    <2>3. call[c].op \in Discharges /\ pc[c] \in {"apply", "charge", "commit"} =>
             call[c].name # n
        BY <1>8, <2>1, Zenon DEF ClientSound, LocksHeld
    <2>4. resv[n].amt + Outstanding(resv'[n]) <= resv'[n].amt + Outstanding(resv[n])
          /\ Outstanding(resv'[n]) \in Nat /\ SameRow(resv[n], resv'[n])
          /\ resv'[n].status # "none"
        <3>1. Outstanding(resv[n]) \in Nat /\ resv[n].amt \in Nat
            BY <1>4, OutstandingNat, Zenon DEF ReserverInv, RowsSound, Rows
        <3>2. \A i, j, k \in Int : i + a <= j => k + i <= k + j
            BY <1>2
        <3>3. resv[n].amt + Outstanding(new) <= resv[n].amt + Outstanding(resv[n])
            BY <1>4, <3>1, <3>2
        <3>. QED  BY <1>4, <1>7, <2>1, <3>3, Zenon DEF SameRow
    <2>5. (bal' = bal \/ balLock = d) /\ claims \subseteq claims'
        BY <1>6, <1>8, Zenon
    <2>. QED  BY <1>1, <1>6, <1>7, <1>10, <2>2, <2>3, <2>4, <2>5, WriteSound, ZenonT(30)
<1>17. Covered'
    <2>1. PICK paid \in Nat : /\ paid = IF x.charged THEN a ELSE 0
                             /\ bal' = bal - paid /\ 0 - paid \in Int /\ paid <= a
        BY <1>2, <1>6
    <2>2. Hold(n) \in Nat /\ Holds \in Int
        BY HoldNat, HoldsInt, Zenon
    <2>3. Hold(n)' \in Nat /\ Hold(n)' <= Hold(n) + (0 - paid)
        <3>1. n \in Unexpired(clock)' <=> n \in Unexpired(clock)
            BY <1>4, <1>6, <1>7, ZenonT(30) DEF Unexpired, Live
        <3>2. CASE n \in Unexpired(clock)
            <4>1. Hold(n)' = Outstanding(new) /\ Hold(n) = Outstanding(resv[n])
                BY <1>7, <3>1, <3>2, Zenon DEF Hold
            <4>. QED  BY <1>2, <1>4, <2>1, <2>2, <4>1
        <3>3. CASE n \notin Unexpired(clock)
            <4>1. Hold(n)' = 0
                BY <1>8, <3>1, <3>3, ReserverAssumption, Zenon DEF Hold
            <4>2. x.charged => Charging(d, n)
                BY <1>2, <1>5, Zenon DEF Charging
            <4>3. x.charged => Hold(n) = a
                BY <1>2, <1>8, <3>3, <4>2, Zenon DEF Hold
            <4>. QED  BY <1>2, <2>1, <2>2, <4>1, <4>3
        <3>. QED  BY <3>2, <3>3, Zenon
    <2>4. Holds' \in Int /\ Holds' <= Holds + (0 - paid)
        BY <1>1, <1>6, <1>7, <2>1, <2>3, HoldsCommit, Zenon
    <2>5. Holds' + paid <= Holds
        <3>1. \A i, j \in Int : i <= j + (0 - paid) => i + paid <= j
            OBVIOUS
        <3>. QED  BY <2>2, <2>4, <3>1, Zenon
    <2>6. Holds' <= bal'
        BY <1>2, <2>1, <2>2, <2>4, <2>5, SMTT(30) DEF ReserverInv, Covered
    <2>7. ASSUME NEW c \in Clients, pc'[c] = "commit", call'[c].op \in Reserves
          PROVE  Holds' + call'[c].amt <= bal'
        <3>1. pc[c] = "commit" /\ call[c] = call'[c] /\ call[c].op \in Reserves
            BY <1>1, <2>7, Zenon DEF Others
        <3>2. Holds + call[c].amt <= bal /\ call[c].amt \in Nat
            BY <3>1, Zenon DEF ReserverInv, Covered, ClientSound, CallSound
        <3>. QED  BY <1>2, <2>1, <2>2, <2>4, <2>5, <3>1, <3>2
    <2>. QED  BY <2>6, <2>7, Zenon DEF Covered
<1>. QED  BY <1>10, <1>12, <1>13, <1>14, <1>15, <1>16, <1>17, ZenonT(30) DEF ReserverInv

\* COMMIT of a reservation, of a discharge, or of a replay that writes nothing.
LEMMA CommitInv ==
    ASSUME ReserverInv, NEW d \in Clients, Commit(d)
    PROVE  ReserverInv'
<1>1. pc[d] = "commit" /\ (call[d].op \in Reserves \/ call[d].op \in Discharges)
    BY Zenon DEF Commit, ReserverInv, ClientSound, CallSound, Discharges
<1>2. CASE pend[d] = NoWrite
    <2>1. PICK res : End(d, res)
        BY Zenon DEF Commit
    <2>2. UNCHANGED <<clock, dbVars>>
        BY <1>2 DEF Commit, NoWrite, NoRow, dbVars
    <2>. QED  BY <2>1, <2>2, AnswerInv, CalmCovered, Zenon
<1>. QED  BY <1>1, <1>2, CommitReserve, CommitDischarge, Zenon

\* Every step keeps the invariant.
LEMMA ReserverNextInv == ReserverInv /\ [ReserverNext]_vars => ReserverInv'
<1>. SUFFICES ASSUME ReserverInv, [ReserverNext]_vars PROVE ReserverInv'
    BY Zenon
<1>1. CASE Tick
    BY <1>1, TickInv, CalmCovered, Zenon
<1>2. ASSUME NEW d \in Clients, Begin(d) \/ Sweep(d) PROVE ReserverInv'
    BY <1>2, BeginInv, CalmCovered, Zenon
<1>3. ASSUME NEW d \in Clients, Step(d) PROVE ReserverInv'
    <2>1. CASE InsertReservation(d)
        BY <2>1, InsertInv, Zenon
    <2>2. CASE Commit(d)
        BY <2>2, CommitInv, Zenon
    <2>3. CASE Verify(d) \/ Lookup(d, "lookup", "idem") \/ Lookup(d, "recheck", "balance")
               \/ LockIdem(d) \/ LockBalance(d) \/ ReadBase(d)
        <3>1. CalmStep /\ NoneReadied
            BY <2>3, VerifyInv, LookupInv, LockIdemInv, LockBalanceInv, ReadBaseInv, ZenonT(30)
        <3>. QED  BY <3>1, CalmCovered, Zenon
    <2>4. CASE LockRow(d) \/ Check(d) \/ Apply(d) \/ Charge(d)
        <3>1. CalmStep /\ NoneReadied
            BY <2>4, LockRowInv, CheckInv, ApplyInv, ChargeInv, Zenon
        <3>. QED  BY <3>1, CalmCovered, Zenon
    <2>. QED  BY <1>3, <2>1, <2>2, <2>3, <2>4, Zenon DEF Step
<1>4. ASSUME NEW d \in Clients, Die(d) PROVE ReserverInv'
    BY <1>4, AnswerInv, CalmCovered, Zenon DEF Die
<1>5. CASE UNCHANGED vars
    <2>1. /\ clock' = clock /\ bal' = bal /\ resv' = resv /\ claims' = claims /\ pc' = pc
          /\ call' = call /\ mem' = mem /\ pend' = pend /\ idemLock' = idemLock
          /\ balLock' = balLock /\ rowLock' = rowLock /\ result' = result
        BY <1>5, ZenonT(30) DEF vars, dbVars, lockVars
    <2>2. Shape' /\ RowsSound' /\ AppliedOnce' /\ KeysApart'
        BY <2>1, SMTT(30) DEF ReserverInv, Shape, RowsSound, AppliedOnce, KeysApart, ClaimsOn, ReceiptsOf,
           LegsOf
    <2>3. Covered'
        BY <2>1, Zenon DEF ReserverInv, Covered, Holds, Hold, Unexpired, Charging
    <2>4. ASSUME NEW c \in Clients PROVE ClientSound(c)'
        <3>1. ClientSound(c)
            BY Zenon DEF ReserverInv
        <3>2. CallSound(c)' /\ LocksHeld(c)' /\ ReadsSound(c)' /\ RetriesSound(c)'
            BY <2>1, <3>1, Zenon DEF ClientSound, CallSound, LocksHeld, ReadsSound, RetriesSound, Done,
               Existing
        <3>3. Allowed(c)' = Allowed(c) /\ NewRow(c)' = NewRow(c)
              /\ NewClaim(c, Table(call[c].op))' = NewClaim(c, Table(call[c].op))
            BY <2>1, Zenon DEF Allowed, SettleAllowed, PartialAllowed, FinalizeAllowed, ReleaseAllowed,
               Row, NewRow, NewClaim
        <3>. QED  BY <2>1, <3>1, <3>2, <3>3, Zenon DEF ClientSound, WritesSound
    <2>. QED  BY <2>2, <2>3, <2>4, Zenon DEF ReserverInv
<1>. QED  BY <1>1, <1>2, <1>3, <1>4, <1>5, Zenon DEF ReserverNext

-----------------------------------------------------------------------------
\* The inductive invariant of the reserver: the shapes of the tables, the locks each place
\* of a call holds, what a call that has read may still rely on, and that every reservation
\* that could still be captured, a capture past its checks included, is covered.
THEOREM ReserverInvariant == ReserverSpec => []ReserverInv
<1>1. ReserverInit => ReserverInv
    BY ReserverInitInv, Zenon
<1>2. ReserverInv /\ [ReserverNext]_vars => ReserverInv'
    BY ReserverNextInv, Zenon
<1>. QED  BY <1>1, <1>2, PTL DEF ReserverSpec

\* No over-sell, for any number of clients, reservations and amounts: what the unexpired
\* reservations may still capture never exceeds the balance (Reserve, Capture, the gate).
THEOREM NoOverSell == ReserverSpec => []HoldsCovered
<1>1. ReserverInv => HoldsCovered
    <2>. SUFFICES ASSUME ReserverInv PROVE HoldsCovered
        BY Zenon
    <2> DEFINE U == Unexpired(clock)
               h == [r \in Names |-> Hold(r)]
               o == [r \in U |-> Outstanding(resv[r])]
    <2>1. U \in SUBSET Names /\ IsFiniteSet(Names) /\ IsFiniteSet(U)
        BY ReserverAssumption, FS_Subset, Zenon DEF Unexpired
    <2>2. \A r \in Names : h[r] \in Nat /\ h[r] \in Int /\ h[r] >= 0
        BY HoldNat
    <2>3. \A r \in U : o[r] = h[r]
        BY <2>1, Zenon DEF Hold
    <2>4. SumFunction(o) = SumFunctionOnSet(o, U) /\ Holds = SumFunctionOnSet(h, Names)
        BY Zenon DEF SumFunction, Holds
    <2>. HIDE DEF h, o, U
    <2>5. SumFunctionOnSet(o, U) = SumFunctionOnSet(h, U)
        BY <2>1, <2>2, <2>3, SumSame, Zenon
    <2>6. SumFunctionOnSet(h, U) <= SumFunctionOnSet(h, Names)
        BY <2>1, <2>2, SumSubset, Zenon
    <2>7. SumFunctionOnSet(h, U) \in Int /\ SumFunctionOnSet(h, Names) \in Int /\ bal \in Int
        BY <2>1, <2>2, SumInt, Zenon DEF ReserverInv, Shape
    <2>8. SumFunction(o) <= bal
        BY <2>4, <2>5, <2>6, <2>7 DEF ReserverInv, Covered
    <2>. QED  BY <2>8, Zenon DEF HoldsCovered, o, U
<1>. QED  BY <1>1, ReserverInvariant, PTL

\* Every discharge is applied exactly once: keys stand for one claim and one charge, the
\* settled amounts are the sums of the claims, the balance has fallen by the charged ones.
THEOREM DischargedOnce == ReserverSpec => []AppliedOnce
<1>1. ReserverInv => AppliedOnce
    BY Zenon DEF ReserverInv
<1>. QED  BY <1>1, ReserverInvariant, PTL

\* A retry of a reservation, discharge or capture that was carried out is never refused.
THEOREM RetriesSucceed == ReserverSpec => RetryNotRefused
<1> DEFINE A == \A c \in Clients : mem[c].done /\ pc[c] # "idle" /\ pc'[c] = "idle" =>
                    result'[c] \in {"ok", "lost"}
<1>1. ReserverInv /\ [ReserverNext]_vars => [A]_vars
    BY RetryStep, Zenon
<1>2. ReserverSpec => [][A]_vars
    BY <1>1, ReserverInvariant, PTL DEF ReserverSpec
<1>. QED  BY <1>2, Zenon DEF RetryNotRefused
=============================================================================
