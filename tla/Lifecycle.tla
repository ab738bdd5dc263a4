----------------------------- MODULE Lifecycle -----------------------------
(***************************************************************************)
(* core.Lifecycle (core/types.go) and the startup check of service/        *)
(* onchain.go that refuses a deposit lifecycle with a cycle: the deposit   *)
(* driver's idempotency keys name (booking, to_status) only, which is      *)
(* sound only while a booking visits a status at most once.                *)
(*                                                                         *)
(* A lifecycle is a record: Initial, Terminal (a set of statuses) and      *)
(* Transitions, a function from some statuses to sequences of targets.     *)
(* Statuses are numbers, in the order the code sorts them; 0 is "".        *)
(***************************************************************************)
EXTENDS Naturals, Sequences, SequencesExt, Folds

\* Transitions[from], empty for a status that is not a key.
Outs(l, from) == IF from \in DOMAIN l.transitions THEN l.transitions[from] ELSE <<>>

Defined(l) == DOMAIN l.transitions \union l.terminal

CanTransition(l, from, to) == to \in ToSet(Outs(l, from))

\* Validate's breadth-first walk from Initial.
RECURSIVE Walk(_, _, _)
Walk(l, visited, queue) ==
    IF queue = <<>> THEN visited
    ELSE LET fresh == SelectSeq(Outs(l, Head(queue)), LAMBDA to : to \notin visited)
         IN  Walk(l, visited \union ToSet(fresh), Tail(queue) \o fresh)

Validate(l) ==
    /\ l.initial # 0
    /\ Outs(l, l.initial) # <<>>
    /\ \A s \in l.terminal : Outs(l, s) = <<>>
    /\ \A from \in DOMAIN l.transitions : ToSet(l.transitions[from]) \subseteq Defined(l)
    /\ Defined(l) \subseteq Walk(l, {l.initial}, <<l.initial>>)

-----------------------------------------------------------------------------
(* lifecycleCycle: a depth-first walk with the statuses on the stack and   *)
(* the ones done with.  A search is [path, done, cycle].                   *)

\* The part of the path that closes on to.
Cut(path, to) == SubSeq(path, SelectInSeq(path, LAMBDA s : s = to), Len(path)) \o <<to>>

\* Fault: a status stays on the path when its walk is over.
LeaveOnPath(s) == [s EXCEPT !.done = @ \union {Last(s.path)}]

\* The walk of one status ends without a cycle.
Leave(s) == [s EXCEPT !.path = Front(@), !.done = @ \union {Last(s.path)}]

RECURSIVE WalkFrom(_, _, _)
WalkFrom(l, from, s) ==
    LET Try(acc, to) ==
            CASE acc.cycle # <<>> -> acc
              [] to \in ToSet(acc.path) -> [acc EXCEPT !.cycle = Cut(acc.path, to)]
              [] to \in acc.done -> acc
              [] OTHER -> WalkFrom(l, to, acc)
        after == FoldLeft(Try, [s EXCEPT !.path = Append(@, from)], Outs(l, from))
    IN  IF after.cycle # <<>> THEN after ELSE Leave(after)

LifecycleCycle(l) ==
    LET starts == SetToSortSeq({l.initial} \union DOMAIN l.transitions, LAMBDA a, b : a < b)
        Root(acc, from) ==
            IF acc.cycle # <<>> \/ from \in acc.done THEN acc
            ELSE WalkFrom(l, from, [acc EXCEPT !.path = <<>>])
    IN  FoldLeft(Root, [path |-> <<>>, done |-> {}, cycle |-> <<>>], starts).cycle
=============================================================================
