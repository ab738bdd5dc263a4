-------------------------------- MODULE Outbox --------------------------------
(***************************************************************************)
(* What event delivery promises, without workers, leases or claims: an     *)
(* event that has been published is handed to the parties that want it,    *)
(* possibly more than once, until each of them has taken it or the limit   *)
(* of failed attempts is reached; what becomes of it is then final.        *)
(***************************************************************************)
EXTENDS Integers, FiniteSets

CONSTANTS
    Events,        \* events that may be published
    Parties,       \* receivers
    Steady,        \* receivers that are there all the time
    Wants,         \* [Events -> the receivers an event is for]
    MaxAttempts    \* failed attempts an event is allowed

VARIABLES
    status,        \* [Events -> "none", "pending", "delivered" or "dead"]
    attempts,      \* [Events -> failed attempts so far]
    accepted       \* [Events -> receivers that have taken the event]

outboxVars == <<status, attempts, accepted>>

OutboxInit ==
    /\ status   = [e \in Events |-> "none"]
    /\ attempts = [e \in Events |-> 0]
    /\ accepted = [e \in Events |-> {}]

Publish(e) ==
    /\ status[e] = "none"
    /\ status' = [status EXCEPT ![e] = "pending"]
    /\ UNCHANGED <<attempts, accepted>>

\* A receiver takes the event; it may see it again, even after the outcome is final.
Accept(e, s) ==
    /\ status[e] # "none" /\ s \in Wants[e]
    /\ accepted' = [accepted EXCEPT ![e] = @ \cup {s}]
    /\ UNCHANGED <<status, attempts>>

Deliver(e) ==
    /\ status[e] = "pending"
    /\ Steady \cap Wants[e] \subseteq accepted[e]
    /\ status' = [status EXCEPT ![e] = "delivered"]
    /\ UNCHANGED <<attempts, accepted>>

Fail(e) ==
    /\ status[e] = "pending"
    /\ attempts' = [attempts EXCEPT ![e] = @ + 1]
    /\ status' = [status EXCEPT ![e] =
                     IF attempts[e] + 1 >= MaxAttempts THEN "dead" ELSE "pending"]
    /\ UNCHANGED accepted

OutboxNext ==
    \E e \in Events : Publish(e) \/ Deliver(e) \/ Fail(e) \/ \E s \in Parties : Accept(e, s)

OutboxSafe == OutboxInit /\ [][OutboxNext]_outboxVars

OutboxSpec ==
    /\ OutboxSafe
    /\ \A e \in Events : WF_outboxVars(Deliver(e) \/ Fail(e))
=============================================================================
