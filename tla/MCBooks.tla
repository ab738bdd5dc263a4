------------------------------- MODULE MCBooks -------------------------------
(* The write path, period closes and the rollup on small instances.  A        *)
(* behaviour is about one cut of the system:                                  *)
(*   posts    three callers; single posts and batches that share keys and     *)
(*            pairs in opposite orders, one key retried with another payload; *)
(*   periods  posts and a batch, which take the barrier before and after      *)
(*            their balance locks, dated on both sides of the lines that two  *)
(*            operators move;                                                 *)
(*   workers  two rollup workers that may fail, against posts to two          *)
(*            classifications of one pair, so that the watermark of a         *)
(*            dimension runs ahead of its own entries;                        *)
(*   readers  one worker that does not fail against the same posts, a rebuild *)
(*            and a reader.                                                   *)
(* What callers were told plays no part in the last two, where every answer   *)
(* is lost.                                                                   *)
EXTENDS PeriodClose, Rollup, TLC

CONSTANTS Cuts,     \* the cuts a configuration checks
          Thirds    \* the clients that only posts uses

VARIABLE cut

Leg(p, c)      == [pair |-> p, cls |-> c]
In(k, d, legs) == [key |-> k, eff |-> d, legs |-> legs]
Main(k, d)     == In(k, d, <<Leg(1, "main")>>)

Post21 == In(1, 0, <<Leg(2, "main"), Leg(1, "main")>>)
Post12 == In(2, 0, <<Leg(1, "main"), Leg(2, "main")>>)

PostRequests   == {<<"post", <<Post21>>>>, <<"post", <<Post12>>>>, <<"batch", <<Main(2, 0), Post21>>>>}
PeriodRequests == {<<"post", <<Main(1, 0)>>>>, <<"post", <<Main(1, 1)>>>>,
                   <<"batch", <<Main(1, 1), Main(2, 0)>>>>}
RollupRequests == {<<"post", <<In(1, 0, <<Leg(1, "main"), Leg(1, "fee")>>)>>>>,
                   <<"post", <<Main(2, 0)>>>>}

MCRequests == PostRequests \cup PeriodRequests \cup RollupRequests

\* The calls of a cut, and how many.
Asked   == CASE cut = "posts" -> PostRequests [] cut = "periods" -> PeriodRequests [] OTHER -> RollupRequests
Allowed == IF cut = "posts" THEN MaxCalls ELSE 2

MCInit == cut \in Cuts /\ PeriodInit /\ RollupInit

MCNext ==
    /\ \/ cut = "posts" /\ PostNext /\ UNCHANGED <<closerVars, rollVars>>
       \/ cut = "periods" /\ PeriodNext /\ UNCHANGED rollVars
       \/ cut \in {"workers", "readers"} /\ RollupNext /\ UNCHANGED <<closerVars, answers>>
    /\ calls' <= Allowed
    /\ cut # "posts" => \A c \in Thirds : pc'[c] = "idle"
    /\ \A c \in Clients : req'[c] # req[c] /\ req'[c] # <<>> => \E r \in Asked : req'[c] = r[2]
    /\ cut = "workers" => UNCHANGED <<opc, target, reading>>
    /\ cut = "readers" =>
          /\ faults' = 0
          /\ \E w \in Workers : \A v \in Workers \ {w} : item'[v] = <<>> /\ batch'[v] = {}
          /\ \A o \in Operators : target'[o] # <<>> => target'[o][1] = 1
          /\ \A r \in Readers : reading'[r].dim # <<>> => reading'[r].dim[1] = 1
    /\ UNCHANGED cut

MCSpec == MCInit /\ [][MCNext]_<<cut, postVars, closerVars, rollVars>>

Sym == Permutations(Clients \ Thirds) \cup Permutations(Workers)
=============================================================================
