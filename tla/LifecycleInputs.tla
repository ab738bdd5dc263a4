--------------------------- MODULE LifecycleInputs ---------------------------
(* Lifecycle over every small graph, built transition by transition.          *)
EXTENDS Lifecycle, TLC
CONSTANTS Statuses, MaxTargets
VARIABLE l
Init == \E i \in {0} \union Statuses, t \in SUBSET Statuses :
            l = [initial |-> i, terminal |-> t, transitions |-> <<>>]
Next == \E from, to \in Statuses :
    /\ Len(Outs(l, from)) < MaxTargets
    /\ \/ l' = [l EXCEPT !.transitions = (from :> Append(Outs(l, from), to)) @@ @]
       \/ from \notin DOMAIN l.transitions /\ l' = [l EXCEPT !.transitions = (from :> <<>>) @@ @]

\* the statuses reached from s by at least one transition
RECURSIVE Reach(_, _)
Reach(S, n) == IF n = 0 THEN S
               ELSE Reach(S \union UNION {ToSet(Outs(l, x)) : x \in S}, n - 1)
Beyond(s) == Reach(ToSet(Outs(l, s)), 4)

\* lifecycleCycle answers a path exactly when some status can be reached again
\* from itself, and the path it answers is such a round trip in the graph.
CycleFoundExactly ==
    LET c == LifecycleCycle(l) IN
    /\ (c = <<>>) = (\A s \in Statuses : s \notin Beyond(s))
    /\ c # <<>> => /\ Len(c) > 1 /\ c[1] = c[Len(c)]
                   /\ \A k \in 1..Len(c) - 1 : CanTransition(l, c[k], c[k + 1])

\* A lifecycle Validate accepts can be driven from its initial status to every
\* status it declares and to no other, and never out of a terminal one.
ValidMeansDrivable ==
    Validate(l) => /\ {l.initial} \union Beyond(l.initial) = Defined(l)
                   /\ \A s \in l.terminal : Beyond(s) = {}

\* Validate and lifecycleCycle agree with reachability.
LifecycleExact == CycleFoundExactly /\ ValidMeansDrivable
=============================================================================
