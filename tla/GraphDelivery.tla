----------------------------- MODULE GraphDelivery -----------------------------
(***************************************************************************)
(* The Graph Inbox: ingest_event, resolve_waits and replay_dead_letter of  *)
(* src/scripts/lib/graph_runtime.py, and claim_inbox and mark_inbox of     *)
(* graph_event_api.py, with which consumers outside the Runtime take part  *)
(* in the same rows.  One action is one committed statement or             *)
(* transaction.                                                            *)
(***************************************************************************)
EXTENDS Integers, FiniteSets

CONSTANTS
    Events,        \* pairs of SOURCE_REF and IDEMPOTENCY_KEY
    Callers,       \* calls of ingest_event and replay_dead_letter
    Consumers,     \* external consumers
    Waits,         \* wait subscriptions the events of Events match
    CreatedAt,     \* CREATED_AT of each, in whatever order they commit
    NoEvent,       \* no event
    DeliveryLimit, \* ATTEMPTS after which a failed event is a dead letter
    ResolveLimit   \* waits resolve_waits takes at once, 100 in the code

ASSUME DeliveryAssumption ==
    /\ NoEvent \notin Events /\ DeliveryLimit \in Nat \ {0}
    /\ CreatedAt \in [Waits -> Nat] /\ ResolveLimit \in Nat \ {0}

VARIABLES
    inbox,         \* GRAPH_INBOX.STATUS of each event, NONE before
    tries,         \* GRAPH_INBOX.ATTEMPTS
    wait,          \* GRAPH_WAIT_SUBSCRIPTIONS.STATUS, NONE before
    caller,        \* what each call is doing
    consumer,      \* the event each consumer has claimed
    early,         \* history: the waits that were open when the event was recorded
    batches,       \* history: what the committed calls of resolve_waits had read
    external       \* history: events a consumer has ever claimed

deliveryHistory == <<early, batches, external>>
deliveryVars == <<inbox, tries, wait, caller, consumer, deliveryHistory>>

InboxStatus == {"NONE", "RECEIVED", "PROCESSING", "PROCESSED", "DUPLICATE", "DEAD_LETTER"}
CallerStages == {"new", "recorded", "ingesting", "replaying", "failed", "unreplayed",
                 "selected", "resolved", "ended"}
NewCall == [at |-> "new", event |-> NoEvent, seen |-> 0, batch |-> {}]

DeliveryInit ==
    /\ inbox = [e \in Events |-> "NONE"]
    /\ tries = [e \in Events |-> 0]
    /\ wait = [s \in Waits |-> "NONE"]
    /\ caller = [c \in Callers |-> NewCall]
    /\ consumer = [x \in Consumers |-> NoEvent]
    /\ early = [e \in Events |-> {}]
    /\ batches = [e \in Events |-> {}]
    /\ external = {}

CallAt(c, s) == caller[c].at = s
Proceed(c, s) == caller' = [caller EXCEPT ![c].at = s]
SetInbox(e, status) == inbox' = [inbox EXCEPT ![e] = status]

\* A node of some Run starts to wait for the event type.
Subscribe(s) ==
    /\ wait[s] = "NONE" /\ wait' = [wait EXCEPT ![s] = "WAITING"]
    /\ UNCHANGED <<inbox, tries, caller, consumer, deliveryHistory>>

\* The reaper expires the wait, or its Run is cancelled.
EndWait(s) ==
    /\ wait[s] = "WAITING" /\ wait' = [wait EXCEPT ![s] = "ENDED"]
    /\ UNCHANGED <<inbox, tries, caller, consumer, deliveryHistory>>

(***************************************************************************)
(* ingest_event.                                                           *)
(***************************************************************************)
\* The insert; the unique key makes a repetition a DUPLICATE.  An event that is
\* not valid becomes a dead letter, one without a subject is only recorded.
Record(c, e, verdict) ==
    LET fresh == inbox[e] = "NONE"
    IN  /\ CallAt(c, "new")
        /\ inbox' = IF ~fresh THEN inbox
                    ELSE [inbox EXCEPT ![e] = IF verdict = "poison" THEN "DEAD_LETTER" ELSE "RECEIVED"]
        /\ early' = IF fresh THEN [early EXCEPT ![e] = {s \in Waits : wait[s] = "WAITING"}] ELSE early
        /\ caller' = [caller EXCEPT ![c].event = e,
                          ![c].at = IF fresh /\ verdict = "authentic" THEN "recorded" ELSE "ended"]
        /\ UNCHANGED <<tries, wait, consumer, batches, external>>

\* The call goes on whether or not its update affected the row.
TakeEvent(c) ==
    LET e == caller[c].event
    IN  /\ CallAt(c, "recorded") /\ Proceed(c, "ingesting")
        /\ inbox' = IF inbox[e] = "RECEIVED" THEN [inbox EXCEPT ![e] = "PROCESSING"] ELSE inbox
        /\ tries' = IF inbox[e] = "RECEIVED" THEN [tries EXCEPT ![e] = @ + 1] ELSE tries
        /\ UNCHANGED <<wait, consumer, deliveryHistory>>

Waiting == {s \in Waits : wait[s] = "WAITING"}

\* Mutant: the query names no order.
OldestFirstNot(B) == B \subseteq Waiting /\ (B = Waiting \/ Cardinality(B) = ResolveLimit)

\* ORDER BY CREATED_AT FETCH FIRST :limit ROWS ONLY
OldestFirst(B) ==
    /\ B \subseteq Waiting
    /\ B = Waiting \/ Cardinality(B) = ResolveLimit
    /\ \A s \in B, t \in Waiting \ B : CreatedAt[s] <= CreatedAt[t]

\* resolve_waits: the query, without a lock, and the updates of what it read; a
\* wait that was resolved or ended meanwhile is skipped.
SelectWaits(c, B) ==
    /\ CallAt(c, "ingesting") \/ CallAt(c, "replaying")
    /\ Cardinality(B) <= ResolveLimit /\ OldestFirst(B)
    /\ caller' = [caller EXCEPT ![c].at = "selected", ![c].batch = B]
    /\ UNCHANGED <<inbox, tries, wait, consumer, deliveryHistory>>

ResolveWaits(c) ==
    LET B == caller[c].batch
    IN  /\ CallAt(c, "selected")
        /\ wait' = [s \in Waits |-> IF s \in B \cap Waiting THEN "RESOLVED" ELSE wait[s]]
        /\ caller' = [caller EXCEPT ![c].at = "resolved", ![c].batch = {}]
        /\ batches' = [batches EXCEPT ![caller[c].event] = @ \cup {B}]
        /\ UNCHANGED <<inbox, tries, consumer, early, external>>

\* Its transaction rolls back, early or late, with nothing to be seen of it; the
\* handler of ingest_event reads ATTEMPTS.
ResolutionFails(c) ==
    /\ CallAt(c, "ingesting") \/ CallAt(c, "replaying")
    /\ caller' = [caller EXCEPT ![c].at = IF @ = "ingesting" THEN "failed" ELSE "unreplayed",
                                ![c].seen = tries[caller[c].event]]
    /\ UNCHANGED <<inbox, tries, wait, consumer, deliveryHistory>>

\* Mutant: the status of the event is written whatever it is.
StillProcessingAlways(e) == TRUE

\* Every update that ends the processing of an event is conditional.
StillProcessing(e) == inbox[e] = "PROCESSING"

Conclude(e, status) == inbox' = IF StillProcessing(e) THEN [inbox EXCEPT ![e] = status] ELSE inbox

AcknowledgeEvent(c) ==
    /\ CallAt(c, "resolved") /\ Proceed(c, "ended") /\ Conclude(caller[c].event, "PROCESSED")
    /\ UNCHANGED <<tries, wait, consumer, deliveryHistory>>

\* The end of a failed call.
PutBack(c) ==
    LET dead == CallAt(c, "unreplayed") \/ caller[c].seen >= DeliveryLimit
    IN  /\ CallAt(c, "failed") \/ CallAt(c, "unreplayed")
        /\ Proceed(c, "ended")
        /\ Conclude(caller[c].event, IF dead THEN "DEAD_LETTER" ELSE "RECEIVED")
        /\ UNCHANGED <<tries, wait, consumer, deliveryHistory>>

\* replay_dead_letter: of two operators one gets the row.
ReplayDeadLetter(c, e) ==
    /\ CallAt(c, "new") /\ inbox[e] = "DEAD_LETTER" /\ SetInbox(e, "PROCESSING")
    /\ caller' = [caller EXCEPT ![c].event = e, ![c].at = "replaying"]
    /\ UNCHANGED <<tries, wait, consumer, deliveryHistory>>

CallerDies(c) ==
    /\ caller[c].at \notin {"new", "ended"}
    /\ caller' = [caller EXCEPT ![c].at = "ended", ![c].batch = {}]
    /\ UNCHANGED <<inbox, tries, wait, consumer, deliveryHistory>>

(***************************************************************************)
(* claim_inbox and mark_inbox.                                             *)
(***************************************************************************)
ClaimInbox(x, e) ==
    LET spent == tries[e] >= DeliveryLimit
    IN  /\ consumer[x] = NoEvent /\ inbox[e] = "RECEIVED"
        /\ SetInbox(e, IF spent THEN "DEAD_LETTER" ELSE "PROCESSING")
        /\ tries' = IF spent THEN tries ELSE [tries EXCEPT ![e] = @ + 1]
        /\ consumer' = IF spent THEN consumer ELSE [consumer EXCEPT ![x] = e]
        /\ external' = IF spent THEN external ELSE external \cup {e}
        /\ UNCHANGED <<wait, caller, early, batches>>

\* The consumer answers; RETRY, which reads ATTEMPTS first, is RECEIVED until the
\* attempts are spent.
MarkInbox(x, status) ==
    LET e == consumer[x]
        retry == IF tries[e] >= DeliveryLimit THEN "DEAD_LETTER" ELSE "RECEIVED"
    IN  /\ e # NoEvent /\ consumer' = [consumer EXCEPT ![x] = NoEvent]
        /\ Conclude(e, IF status = "RETRY" THEN retry ELSE status)
        /\ UNCHANGED <<tries, wait, caller, deliveryHistory>>

DeliveryNext ==
    \/ \E s \in Waits : Subscribe(s) \/ EndWait(s)
    \/ \E c \in Callers :
          \/ \E e \in Events, verdict \in {"authentic", "anonymous", "poison"} : Record(c, e, verdict)
          \/ \E e \in Events : ReplayDeadLetter(c, e)
          \/ \E B \in SUBSET Waits : SelectWaits(c, B)
          \/ TakeEvent(c) \/ ResolveWaits(c) \/ ResolutionFails(c)
          \/ AcknowledgeEvent(c) \/ PutBack(c) \/ CallerDies(c)
    \/ \E x \in Consumers :
          \/ \E e \in Events : ClaimInbox(x, e)
          \/ \E status \in {"PROCESSED", "DUPLICATE", "DEAD_LETTER", "RETRY"} : MarkInbox(x, status)

DeliverySpec == DeliveryInit /\ [][DeliveryNext]_deliveryVars

(***************************************************************************)
(* Correctness.                                                            *)
(***************************************************************************)
DeliveryTypeOK ==
    /\ inbox \in [Events -> InboxStatus] /\ tries \in [Events -> Nat]
    /\ wait \in [Waits -> {"NONE", "WAITING", "RESOLVED", "ENDED"}]
    /\ caller \in [Callers -> [at : CallerStages, event : Events \cup {NoEvent}, seen : Nat,
                           batch : SUBSET Waits]]
    /\ consumer \in [Consumers -> Events \cup {NoEvent}]
    /\ early \in [Events -> SUBSET Waits] /\ batches \in [Events -> SUBSET SUBSET Waits]
    /\ external \subseteq Events

\* A full batch of waits, none of them younger than s, left no room for it.
Crowded(s, B) == Cardinality(B) = ResolveLimit /\ \A t \in B : CreatedAt[t] <= CreatedAt[s]

Served(e, s) == wait[s] # "WAITING" \/ \E B \in batches[e] : Crowded(s, B)

\* When an event that no external consumer ever took is PROCESSED, nobody still
\* waits who waited for it when it was recorded, whichever calls failed, died, or
\* were repeated in between.  The one exception is a wait behind ResolveLimit
\* older ones: it is passed over, and the event acknowledged all the same.
NoWaitLost ==
    \A e \in Events \ external : inbox[e] = "PROCESSED" => \A s \in early[e] : Served(e, s)

\* An event that was PROCESSED is never reopened by a late failure, by a replay
\* or by a consumer that was slow.
ProcessedIsFinal ==
    [][\A e \in Events : inbox[e] = "PROCESSED" => inbox'[e] = "PROCESSED"]_deliveryVars
===============================================================================
