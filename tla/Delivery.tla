------------------------------- MODULE Delivery -------------------------------
(***************************************************************************)
(* Delivery of events: the claims of postgres/event_store.go and the two   *)
(* dispatchers of service/delivery, webhook.go (subscribers of a table,    *)
(* over HTTP) and local.go (handlers of the process).  A claim is a lease: *)
(* next_attempt_at is moved into the future and its value is the token     *)
(* that lets the claimant record the outcome.  A claim taken over later    *)
(* has another timestamp, so the token is known by its holder: owner[e] is *)
(* the worker whose claim wrote the present next_attempt_at, and due[e]    *)
(* says that this time has come.  A worker runs one batch at a time.       *)
(***************************************************************************)
EXTENDS Integers, FiniteSets

CONSTANTS
    Events, Parties, Steady, Wants, MaxAttempts,   \* as in Outbox
    Workers,       \* dispatcher loops, in one process or several
    NoWorker,      \* owner of an event nobody has claimed
    Local,         \* TRUE: handlers in the process, FALSE: webhook subscribers
    EventBatch,    \* events of one claim
    MaxLate,       \* bound: leases that run out under a live worker
    MaxCrashes,    \* bound: workers that die
    MaxToggles     \* bound: subscribers switched on or off

ASSUME DeliveryAssumption ==
    /\ Steady \subseteq Parties
    /\ Wants \in [Events -> SUBSET Parties]
    /\ MaxAttempts \in Nat \ {0} /\ EventBatch \in Nat \ {0}
    /\ NoWorker \notin Workers /\ Local \in BOOLEAN

VARIABLES
    status, attempts,  \* columns of events
    due,               \* next_attempt_at <= now()
    owner,             \* whose claim wrote next_attempt_at
    active,            \* active rows of webhook_subscribers
    accepted,          \* receivers that have answered 2xx, or handled the event
    batch,             \* [Workers -> claimed events not yet tried]
    listed,            \* [Workers -> receivers listed for the batch]
    cur,               \* [Workers -> event being delivered, or none]
    left,              \* [Workers -> receivers of it still to call]
    ok,                \* [Workers -> no call of it has failed]
    pc,                \* [Workers -> "idle", "list", "next" or "send"]
    late, crashes, toggles

rowVars  == <<status, attempts, due, owner>>
workVars == <<batch, listed, cur, left, ok, pc>>
bounds   == <<late, crashes, toggles>>
vars     == <<rowVars, active, accepted, workVars, bounds>>

NoEvent == "none"

Init ==
    /\ status   = [e \in Events |-> "none"]
    /\ attempts = [e \in Events |-> 0]
    /\ due      = [e \in Events |-> FALSE]
    /\ owner    = [e \in Events |-> NoWorker]
    /\ active   = Steady
    /\ accepted = [e \in Events |-> {}]
    /\ batch    = [w \in Workers |-> {}]
    /\ listed     = [w \in Workers |-> {}]
    /\ cur      = [w \in Workers |-> NoEvent]
    /\ left     = [w \in Workers |-> {}]
    /\ ok       = [w \in Workers |-> TRUE]
    /\ pc       = [w \in Workers |-> "idle"]
    /\ late = 0 /\ crashes = 0 /\ toggles = 0

-----------------------------------------------------------------------------
(* The rows of events.                                                     *)

\* InsertEvent: delivery_status 'pending', next_attempt_at now().
PublishEvent(e) ==
    /\ status[e] = "none"
    /\ status' = [status EXCEPT ![e] = "pending"]
    /\ due' = [due EXCEPT ![e] = TRUE]
    /\ UNCHANGED <<attempts, owner, active, accepted, workVars, bounds>>

\* The rows GetPendingEvents may lock.
Claimable == {e \in Events : status[e] = "pending" /\ due[e]}

\* One UPDATE over rows locked FOR UPDATE SKIP LOCKED: no two claims share a row.
GetPendingEvents(w) ==
    /\ pc[w] = "idle"
    /\ \E S \in SUBSET Claimable :
          /\ S # {} /\ Cardinality(S) <= EventBatch
          /\ Cardinality(S) = EventBatch \/ S = Claimable
          /\ batch' = [batch EXCEPT ![w] = S]
          /\ due'   = [e \in Events |-> due[e] /\ e \notin S]
          /\ owner' = [e \in Events |-> IF e \in S THEN w ELSE owner[e]]
    /\ pc' = [pc EXCEPT ![w] = "list"]
    /\ UNCHANGED <<status, attempts, active, accepted, listed, cur, left, ok, bounds>>

\* Workers that believe they hold a claim on e.
Holding(e) == {w \in Workers : e \in batch[w] \/ cur[w] = e}

\* next_attempt_at passes: a retry is due, or a lease has run out.
TimePasses(e) ==
    /\ status[e] = "pending" /\ ~due[e]
    /\ owner[e] \in Holding(e) => late < MaxLate
    /\ late' = IF owner[e] \in Holding(e) THEN late + 1 ELSE late
    /\ due' = [due EXCEPT ![e] = TRUE]
    /\ UNCHANGED <<status, attempts, owner, active, accepted, workVars, crashes, toggles>>

\* Fault: the outcome is recorded by id alone.
UpdateUnguarded(e, w, st, att) ==
    /\ status'   = [status EXCEPT ![e] = st]
    /\ attempts' = [attempts EXCEPT ![e] = att]
    /\ owner'    = [owner EXCEPT ![e] = NoWorker]
    /\ due'      = [due EXCEPT ![e] = FALSE]

\* UPDATE events SET ... WHERE id = $1 AND next_attempt_at = $token: a worker whose
\* lease was taken over changes no row.
Update(e, w, st, att) ==
    IF owner[e] = w
    THEN /\ status'   = [status EXCEPT ![e] = st]
         /\ attempts' = [attempts EXCEPT ![e] = att]
         /\ owner'    = [owner EXCEPT ![e] = IF st = "pending" THEN NoWorker ELSE @]
         /\ due'      = [due EXCEPT ![e] = @ /\ st # "pending"]
    ELSE UNCHANGED rowVars

MarkDelivered(w) == Update(cur[w], w, "delivered", attempts[cur[w]])

\* Fault: the attempt is not counted.
MarkRetryUncounted(w) == Update(cur[w], w, "pending", attempts[cur[w]])

\* UpdateEventRetry counts the attempt and decides between retry and dead.
MarkRetry(w) ==
    Update(cur[w], w, IF attempts[cur[w]] + 1 >= MaxAttempts THEN "dead" ELSE "pending",
           attempts[cur[w]] + 1)

-----------------------------------------------------------------------------
(* The dispatchers.                                                        *)

\* webhook.go lists the active subscribers once per batch; without any it leaves the
\* claims to run out.  local.go calls every handler it has.
ListActiveSubscribers(w) ==
    /\ pc[w] = "list"
    /\ LET found == IF Local THEN Parties ELSE active
       IN  IF ~Local /\ found = {}
           THEN /\ batch' = [batch EXCEPT ![w] = {}]
                /\ pc' = [pc EXCEPT ![w] = "idle"]
                /\ UNCHANGED listed
           ELSE /\ listed' = [listed EXCEPT ![w] = found]
                /\ pc' = [pc EXCEPT ![w] = "next"]
                /\ UNCHANGED batch
    /\ UNCHANGED <<rowVars, active, accepted, cur, left, ok, bounds>>

MatchSubscribers(w, e) == listed[w] \cap Wants[e]

\* The next event of the batch, or the end of it.
NextEvent(w) ==
    /\ pc[w] = "next"
    /\ IF batch[w] = {}
       THEN /\ pc' = [pc EXCEPT ![w] = "idle"]
            /\ UNCHANGED <<batch, cur, left, ok>>
       ELSE \E e \in batch[w] :
               /\ batch' = [batch EXCEPT ![w] = @ \ {e}]
               /\ cur'   = [cur EXCEPT ![w] = e]
               /\ left'  = [left EXCEPT ![w] = MatchSubscribers(w, e)]
               /\ ok'    = [ok EXCEPT ![w] = TRUE]
               /\ pc'    = [pc EXCEPT ![w] = "send"]
    /\ UNCHANGED <<rowVars, active, accepted, listed, bounds>>

\* One POST, or one handler: taken and acknowledged; taken, but the answer is lost;
\* or not taken at all.  A failure does not stop the others.
Send(w) ==
    /\ pc[w] = "send"
    /\ \E s \in left[w], taken, acked \in BOOLEAN :
          /\ acked => taken
          /\ left' = [left EXCEPT ![w] = @ \ {s}]
          /\ accepted' = IF taken THEN [accepted EXCEPT ![cur[w]] = @ \cup {s}]
                                  ELSE accepted
          /\ ok' = [ok EXCEPT ![w] = @ /\ acked]
    /\ UNCHANGED <<rowVars, active, batch, listed, cur, pc, bounds>>

\* The outcome is written with a context of its own (cleanupContext).
Record(w) ==
    /\ pc[w] = "send" /\ left[w] = {}
    /\ IF ok[w] THEN MarkDelivered(w) ELSE MarkRetry(w)
    /\ cur' = [cur EXCEPT ![w] = NoEvent]
    /\ pc'  = [pc EXCEPT ![w] = "next"]
    /\ UNCHANGED <<active, accepted, batch, listed, left, ok, bounds>>

\* The process dies; its leases stay in the rows until they run out.
WorkerDies(w) ==
    /\ pc[w] # "idle"
    /\ crashes < MaxCrashes
    /\ crashes' = crashes + 1
    /\ batch' = [batch EXCEPT ![w] = {}]
    /\ cur'   = [cur EXCEPT ![w] = NoEvent]
    /\ left'  = [left EXCEPT ![w] = {}]
    /\ pc'    = [pc EXCEPT ![w] = "idle"]
    /\ UNCHANGED <<rowVars, active, accepted, listed, ok, late, toggles>>

\* An operator adds a subscriber, or switches one on or off.
Toggle(s) ==
    /\ toggles < MaxToggles
    /\ toggles' = toggles + 1
    /\ s \notin Steady
    /\ active' = IF s \in active THEN active \ {s} ELSE active \cup {s}
    /\ UNCHANGED <<rowVars, accepted, workVars, late, crashes>>

-----------------------------------------------------------------------------
Work(w) == ListActiveSubscribers(w) \/ NextEvent(w) \/ Send(w) \/ Record(w)

Next ==
    \/ \E e \in Events : PublishEvent(e) \/ TimePasses(e)
    \/ \E w \in Workers : GetPendingEvents(w) \/ Work(w) \/ WorkerDies(w)
    \/ \E s \in Parties : Toggle(s)

DeliverySafe == Init /\ [][Next]_vars

\* Time passes, the worker's ticker polls again, and a batch under way goes on: every
\* call has a timeout.
DeliverySpec ==
    /\ DeliverySafe
    /\ \A e \in Events : WF_vars(TimePasses(e))
    /\ \A w \in Workers : WF_vars(Work(w)) /\ WF_vars(GetPendingEvents(w))

-----------------------------------------------------------------------------
DeliveryTypeOK ==
    /\ status \in [Events -> {"none", "pending", "delivered", "dead"}]
    /\ attempts \in [Events -> 0..MaxAttempts]
    /\ due \in [Events -> BOOLEAN]
    /\ owner \in [Events -> Workers \cup {NoWorker}]
    /\ active \in SUBSET Parties
    /\ accepted \in [Events -> SUBSET Parties]
    /\ batch \in [Workers -> SUBSET Events]
    /\ listed \in [Workers -> SUBSET Parties]
    /\ cur \in [Workers -> Events \cup {NoEvent}]
    /\ left \in [Workers -> SUBSET Parties]
    /\ ok \in [Workers -> BOOLEAN]
    /\ pc \in [Workers -> {"idle", "list", "next", "send"}]

Outbox == INSTANCE Outbox

\* Delivery with leases keeps the promise of Outbox: whatever workers die, answers get
\* lost and leases are taken over, an outcome is final, it is "delivered" only when every
\* receiver that was there all along and wanted the event has taken it, and "dead" only
\* after MaxAttempts counted failures.
KeepsPromise == Outbox!OutboxSafe

\* Every published event is delivered or dead in the end, while somebody is listening.
EveryEventSettles ==
    \A e \in Events : []<>(status[e] # "pending")
=============================================================================
