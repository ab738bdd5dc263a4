------------------------------ MODULE MCReserver ------------------------------
(* Two reservations that together use up the balance, discharges that share  *)
(* keys, and a clock that outlives both.  part says which store a behaviour  *)
(* is about: one with WithAuth configured, whose clients call the gate       *)
(* (constants of the .cfg), or one without, whose clients reserve and        *)
(* capture.                                                                  *)
EXTENDS Reserver, TLC

VARIABLE part

Plain == INSTANCE Reserver WITH
    Signing <- FALSE, Ops <- {"reserve", "capture", "capturePartial", "release"}, MaxFaults <- 0

MCInit == part \in {"gate", "plain"} /\ ReserverInit

MCNext ==
    /\ \/ part = "gate"  /\ ReserverNext
       \/ part = "plain" /\ Plain!ReserverNext
    /\ UNCHANGED part

MCSpec == MCInit /\ [][MCNext]_<<part, vars>>

Sym == Permutations(Clients \ Sweepers) \cup Permutations(Names) \cup Permutations(OpKeys)
=============================================================================
