-------------------------- MODULE GraphServiceProofs --------------------------
(***************************************************************************)
(* Theorems about the services around the Graph Runtime: the delivery of   *)
(* events (GraphDelivery), forks of a Run (GraphFork) and the lease of a   *)
(* Run's scheduler (SchedulerLease).  They share no state.                 *)
(***************************************************************************)
EXTENDS GraphDelivery, GraphFork, SchedulerLease, TLAPS

(***************************************************************************)
(* Event delivery.  A call works on an event that is recorded, so the      *)
(* waits that were open when it was recorded are fixed; before the call    *)
(* may acknowledge the event each of them is over, or was crowded out of a *)
(* full batch, for which the batch is the witness.                         *)
(***************************************************************************)
Active(c) == caller[c].at \notin {"new", "ended"}

OnRecordedEvent == \A c \in Callers : Active(c) => caller[c].event \in Events /\ inbox[caller[c].event] # "NONE"
EarlyWereSubscribed == \A e \in Events : \A s \in early[e] : wait[s] # "NONE"

\* A call that has read its batch will end the wait of s, or has the batch to show.
WillEnd(c, s) == wait[s] = "WAITING" => s \in caller[c].batch \/ Crowded(s, caller[c].batch)

EarlyInBatch ==
    \A c \in Callers : caller[c].at = "selected" => \A s \in early[caller[c].event] : WillEnd(c, s)
ResolvedBeforeAck ==
    \A c \in Callers : caller[c].at = "resolved" =>
        \A s \in early[caller[c].event] : Served(caller[c].event, s)
ConsumersAreExternal == \A x \in Consumers : consumer[x] # NoEvent => consumer[x] \in external

DeliveryInv ==
    /\ DeliveryTypeOK /\ OnRecordedEvent /\ EarlyWereSubscribed
    /\ EarlyInBatch /\ ResolvedBeforeAck /\ ConsumersAreExternal /\ NoWaitLost

LEMMA DeliveryInitially == DeliveryInit => DeliveryInv
<1> SUFFICES ASSUME DeliveryInit PROVE DeliveryInv
    OBVIOUS
<1> USE DEF DeliveryInit
<1>1. DeliveryTypeOK
    BY DEF DeliveryTypeOK, InboxStatus, CallerStages, NewCall
<1> QED
    BY <1>1 DEF DeliveryInv, OnRecordedEvent, Active, EarlyWereSubscribed, EarlyInBatch, ResolvedBeforeAck, NewCall,
                ConsumersAreExternal, NoWaitLost

\* What a step that leaves an event's status alone, or ends its processing, needs.
LEMMA ConcludeKeeps ==
    ASSUME DeliveryTypeOK, NEW e \in Events, NEW status \in InboxStatus \ {"NONE"}, Conclude(e, status)
    PROVE  /\ inbox' \in [Events -> InboxStatus]
           /\ \A d \in Events : inbox[d] # "NONE" => inbox'[d] # "NONE"
           /\ \A d \in Events : inbox[d] = "PROCESSED" => inbox'[d] = "PROCESSED"
           /\ \A d \in Events : d # e \/ status # "PROCESSED" => (inbox'[d] = "PROCESSED" => inbox[d] = "PROCESSED")
BY DEF DeliveryTypeOK, Conclude, StillProcessing, InboxStatus

\* What becomes of a call that goes on with another batch.
CallRows == [at : CallerStages, event : Events \cup {NoEvent}, seen : Nat, batch : SUBSET Waits]

LEMMA CallGoesOn ==
    ASSUME DeliveryTypeOK, NEW c \in Callers, NEW at \in CallerStages, NEW B \in SUBSET Waits,
           caller' = [caller EXCEPT ![c].at = at, ![c].batch = B]
    PROVE  /\ caller' \in [Callers -> CallRows]
           /\ caller'[c].at = at /\ caller'[c].batch = B
           /\ \A d \in Callers : caller'[d].event = caller[d].event
           /\ \A d \in Callers \ {c} : caller'[d] = caller[d]
<1> DEFINE row == [caller[c] EXCEPT !.at = at, !.batch = B]
<1>1. caller \in [Callers -> CallRows]
    BY DEF DeliveryTypeOK, CallRows
<1>2. caller[c] \in CallRows
    BY <1>1
<1>3. row \in CallRows /\ row.at = at /\ row.batch = B /\ row.event = caller[c].event
    BY <1>2 DEF CallRows
<1>4. caller' = [caller EXCEPT ![c] = row]
    BY <1>1
<1> HIDE DEF row
<1> QED
    BY <1>1, <1>3, <1>4

\* Whoever is served stays so: no wait opens again, and no batch is forgotten.
LEMMA ServedStays ==
    ASSUME DeliveryTypeOK, [DeliveryNext]_deliveryVars,
           NEW e \in Events, NEW s \in Waits, wait[s] # "NONE", Served(e, s)
    PROVE  Served(e, s)'
<1> USE DEF DeliveryTypeOK, deliveryHistory
<1>1. CASE UNCHANGED <<wait, batches>>
    BY <1>1 DEF Served, Crowded
<1>2. ASSUME NEW t \in Waits, Subscribe(t) PROVE Served(e, s)'
    BY <1>2 DEF Subscribe, Served, Crowded
<1>3. ASSUME NEW t \in Waits, EndWait(t) PROVE Served(e, s)'
    BY <1>3 DEF EndWait, Served, Crowded
<1>4. ASSUME NEW c \in Callers, ResolveWaits(c) PROVE Served(e, s)'
    BY <1>4 DEF ResolveWaits, Waiting, Served, Crowded
<1> QED
    BY <1>1, <1>2, <1>3, <1>4
    DEF DeliveryNext, deliveryVars, Record, ReplayDeadLetter, SelectWaits, TakeEvent, ResolutionFails,
        AcknowledgeEvent, PutBack, CallerDies, ClaimInbox, MarkInbox

\* Every step keeps the invariant, and no step reopens an event.
LEMMA DeliveryStep ==
    DeliveryInv /\ [DeliveryNext]_deliveryVars
        => DeliveryInv' /\ \A e \in Events : inbox[e] = "PROCESSED" => inbox'[e] = "PROCESSED"
<1> SUFFICES ASSUME DeliveryInv, [DeliveryNext]_deliveryVars
             PROVE  DeliveryInv' /\ \A e \in Events : inbox[e] = "PROCESSED" => inbox'[e] = "PROCESSED"
    OBVIOUS
<1> DEFINE Goal == DeliveryInv' /\ \A e \in Events : inbox[e] = "PROCESSED" => inbox'[e] = "PROCESSED"
<1> USE DeliveryAssumption DEF DeliveryInv, DeliveryTypeOK, OnRecordedEvent, Active, EarlyWereSubscribed,
        EarlyInBatch, ResolvedBeforeAck, WillEnd, ConsumersAreExternal, NoWaitLost, InboxStatus, CallerStages,
        CallAt, Proceed, SetInbox, deliveryHistory
<1>0. \A e \in Events, s \in Waits : wait[s] # "NONE" /\ Served(e, s) => Served(e, s)'
    BY ServedStays
<1>1. ASSUME NEW s \in Waits, Subscribe(s) PROVE Goal
    BY <1>0, <1>1 DEF Subscribe, Crowded
<1>13. ASSUME NEW s \in Waits, EndWait(s) PROVE Goal
    BY <1>0, <1>13 DEF EndWait, Crowded
<1>14. ASSUME NEW c \in Callers, NEW B \in SUBSET Waits, SelectWaits(c, B) PROVE Goal
    <2>1. CASE ~Active(c)
        BY <1>14, <2>1 DEF SelectWaits
    <2>2. CASE Active(c)
        <3> DEFINE e == caller[c].event
        <3>1. /\ caller' = [caller EXCEPT ![c].at = "selected", ![c].batch = B]
              /\ UNCHANGED <<inbox, tries, wait, consumer, early, batches, external>>
              /\ OldestFirst(B)
            BY <1>14 DEF SelectWaits
        <3>2. /\ caller' \in [Callers -> CallRows]
              /\ caller'[c].at = "selected" /\ caller'[c].batch = B
              /\ \A d \in Callers : caller'[d].event = caller[d].event
              /\ \A d \in Callers \ {c} : caller'[d] = caller[d]
            <4>1. "selected" \in CallerStages
                OBVIOUS
            <4> QED
                BY <3>1, <4>1, CallGoesOn
        <3>3. \A s \in Waits : wait[s] = "WAITING" => s \in B \/ Crowded(s, B)
            BY <3>1 DEF OldestFirst, Waiting, Crowded
        <3>4. DeliveryTypeOK'
            BY <3>1, <3>2 DEF CallRows
        <3>5. e \in Events /\ early[e] \subseteq Waits
            BY <2>2
        <3>6. EarlyInBatch'
            BY <3>1, <3>2, <3>3, <3>5 DEF Crowded
        <3>7. OnRecordedEvent' /\ ResolvedBeforeAck'
            BY <1>0, <2>2, <3>1, <3>2
        <3>8. EarlyWereSubscribed' /\ ConsumersAreExternal'
            BY <3>1
        <3>9. NoWaitLost'
            BY <1>0, <3>1
        <3>10. \A d \in Events : inbox[d] = "PROCESSED" => inbox'[d] = "PROCESSED"
            BY <3>1
        <3> QED
            BY <3>4, <3>6, <3>7, <3>8, <3>9, <3>10
    <2> QED
        BY <2>1, <2>2
<1>2. ASSUME NEW c \in Callers, NEW e \in Events, NEW verdict \in {"authentic", "anonymous", "poison"},
             Record(c, e, verdict)
      PROVE  Goal
    <2>1. CASE inbox[e] = "NONE"
        BY <1>0, <1>2, <2>1 DEF Record, Crowded
    <2>2. CASE inbox[e] # "NONE"
        BY <1>0, <1>2, <2>2 DEF Record, Crowded
    <2> QED
        BY <2>1, <2>2
<1>3. ASSUME NEW c \in Callers, NEW e \in Events, ReplayDeadLetter(c, e) PROVE Goal
    BY <1>0, <1>3 DEF ReplayDeadLetter, Crowded
<1>4. ASSUME NEW c \in Callers, TakeEvent(c) PROVE Goal
    BY <1>0, <1>4 DEF TakeEvent, Crowded
<1>5. ASSUME NEW c \in Callers, ResolveWaits(c) PROVE Goal
    <2>1. PICK b \in SUBSET Waits : b = caller[c].batch
        OBVIOUS
    <2>4. PICK e \in Events : e = caller[c].event /\ inbox[e] # "NONE" /\ early[e] \subseteq Waits
        BY <1>5 DEF ResolveWaits
    <2>2. /\ caller' = [caller EXCEPT ![c].at = "resolved", ![c].batch = {}]
          /\ wait' = [s \in Waits |-> IF s \in b \cap Waiting THEN "RESOLVED" ELSE wait[s]]
          /\ batches' = [batches EXCEPT ![e] = @ \cup {b}]
          /\ UNCHANGED <<inbox, tries, consumer, early, external>>
        BY <1>5, <2>1, <2>4 DEF ResolveWaits
    <2>3. /\ caller' \in [Callers -> CallRows]
          /\ caller'[c].at = "resolved" /\ caller'[c].batch = {}
          /\ \A d \in Callers : caller'[d].event = caller[d].event
          /\ \A d \in Callers \ {c} : caller'[d] = caller[d]
        <3>1. "resolved" \in CallerStages /\ {} \in SUBSET Waits
            OBVIOUS
        <3> QED
            BY <2>2, <3>1, CallGoesOn
    <2>5. DeliveryTypeOK'
        <3>1. wait' \in [Waits -> {"NONE", "WAITING", "RESOLVED", "ENDED"}]
            BY <2>2
        <3>2. batches' \in [Events -> SUBSET SUBSET Waits]
            BY <2>2, <2>4
        <3> QED
            BY <2>2, <2>3, <3>1, <3>2 DEF CallRows
    <2>6. OnRecordedEvent'
        BY <2>2, <2>3, <2>4
    <2>7. \A s \in Waits : (wait'[s] = "WAITING" => wait[s] = "WAITING" /\ s \notin b)
                            /\ (wait[s] # "NONE" => wait'[s] # "NONE")
        BY <2>2 DEF Waiting
    <2>8. EarlyWereSubscribed'
        BY <2>2, <2>7
    <2>9. EarlyInBatch'
        <3>1. ASSUME NEW d \in Callers, caller'[d].at = "selected" PROVE d # c /\ caller'[d] = caller[d]
            BY <2>3, <3>1
        <3>2. \A d \in Callers : caller[d].at = "selected" => early[caller[d].event] \subseteq Waits
            OBVIOUS
        <3> QED
            BY <2>2, <2>7, <3>1, <3>2 DEF Crowded
    <2>10. \A s \in early[e] : Served(e, s)'
        <3>1. \A s \in early[e] : wait[s] = "WAITING" => s \in b \/ Crowded(s, b)
            BY <1>5, <2>1, <2>4 DEF ResolveWaits
        <3>2. b \in batches'[e]
            BY <2>2, <2>4
        <3> SUFFICES ASSUME NEW s \in early[e] PROVE Served(e, s)'
            OBVIOUS
        <3>3. s \in Waits
            BY <2>4
        <3>4. CASE wait'[s] # "WAITING"
            BY <3>4 DEF Served
        <3>5. CASE wait'[s] = "WAITING"
            <4>1. Crowded(s, b)
                BY <2>7, <3>1, <3>3, <3>5
            <4> QED
                BY <3>2, <4>1 DEF Served, Crowded
        <3> QED
            BY <3>4, <3>5
    <2>11. ResolvedBeforeAck'
        <3>1. ASSUME NEW d \in Callers, caller'[d].at = "resolved", NEW k \in Events, k = caller[d].event,
                     NEW s \in early[k]
              PROVE  Served(k, s)'
            <4>1. CASE d = c
                BY <2>4, <2>10, <3>1, <4>1
            <4>2. CASE d # c
                <5>1. caller[d].at = "resolved"
                    BY <2>3, <3>1, <4>2
                <5>2. Served(k, s) /\ s \in Waits /\ wait[s] # "NONE"
                    BY <3>1, <5>1
                <5> QED
                    BY <1>0, <5>2
            <4> QED
                BY <4>1, <4>2
        <3>2. \A d \in Callers : caller'[d].at = "resolved" => caller[d].event \in Events
            BY <2>3, <2>4
        <3> QED
            BY <2>2, <2>3, <3>1, <3>2
    <2>12. ConsumersAreExternal' /\ \A d \in Events : inbox[d] = "PROCESSED" => inbox'[d] = "PROCESSED"
        BY <2>2
    <2>13. NoWaitLost'
        BY <1>0, <2>2
    <2> QED
        BY <2>5, <2>6, <2>8, <2>9, <2>11, <2>12, <2>13
<1>6. ASSUME NEW c \in Callers, ResolutionFails(c) PROVE Goal
    <2>1. tries[caller[c].event] \in Nat
        BY <1>6 DEF ResolutionFails
    <2>2. caller' \in [Callers -> [at : CallerStages, event : Events \cup {NoEvent}, seen : Nat,
                                  batch : SUBSET Waits]]
        <3> DEFINE Rows == [at : CallerStages, event : Events \cup {NoEvent}, seen : Nat, batch : SUBSET Waits]
                   at == IF caller[c].at = "ingesting" THEN "failed" ELSE "unreplayed"
                   row == [caller[c] EXCEPT !.at = at, !.seen = tries[caller[c].event]]
        <3>1. caller[c] \in Rows /\ at \in CallerStages
            OBVIOUS
        <3> HIDE DEF at
        <3>2. row \in Rows
            BY <2>1, <3>1
        <3>3. caller' = [caller EXCEPT ![c] = row]
            BY <1>6, <3>1 DEF ResolutionFails, at
        <3> HIDE DEF row, Rows
        <3>4. caller \in [Callers -> Rows]
            BY DEF Rows
        <3> QED
            BY <3>2, <3>3, <3>4 DEF Rows
    <2>3. \A d \in Callers : caller'[d].event = caller[d].event /\ caller'[d].batch = caller[d].batch
        BY <1>6 DEF ResolutionFails
    <2>4. caller'[c].at \notin {"selected", "resolved"} /\ \A d \in Callers \ {c} : caller'[d].at = caller[d].at
        BY <1>6 DEF ResolutionFails
    <2>5. Active(c)
        BY <1>6 DEF ResolutionFails
    <2>6. UNCHANGED <<inbox, tries, wait, consumer, early, batches, external>>
        BY <1>6 DEF ResolutionFails
    <2>7. DeliveryTypeOK'
        BY <2>2, <2>6
    <2>8. OnRecordedEvent'
        BY <2>3, <2>4, <2>5, <2>6
    <2>9. ResolvedBeforeAck' /\ EarlyInBatch'
        BY <1>0, <2>3, <2>4, <2>6 DEF Crowded
    <2> QED
        BY <1>0, <2>6, <2>7, <2>8, <2>9
<1>7. ASSUME NEW c \in Callers, AcknowledgeEvent(c) PROVE Goal
    <2> DEFINE e == caller[c].event
    <2>1. e \in Events /\ Conclude(e, "PROCESSED")
        BY <1>7 DEF AcknowledgeEvent
    <2>2. \A s \in early[e] : Served(e, s)
        BY <1>7 DEF AcknowledgeEvent
    <2>3. /\ inbox' \in [Events -> InboxStatus]
          /\ \A d \in Events : inbox[d] # "NONE" => inbox'[d] # "NONE"
          /\ \A d \in Events : inbox[d] = "PROCESSED" => inbox'[d] = "PROCESSED"
          /\ \A d \in Events : d # e => (inbox'[d] = "PROCESSED" => inbox[d] = "PROCESSED")
        BY <2>1, ConcludeKeeps
    <2>4. /\ UNCHANGED <<tries, wait, consumer, early, batches, external>>
          /\ caller' = [caller EXCEPT ![c].at = "ended"]
        BY <1>7 DEF AcknowledgeEvent
    <2>5. \A d \in Callers : caller'[d].event = caller[d].event /\ (d # c => caller'[d] = caller[d])
        BY <2>4
    <2>6. DeliveryTypeOK'
        <3>1. caller \in [Callers -> CallRows] /\ caller[c] \in CallRows
            BY DEF CallRows
        <3>2. [caller[c] EXCEPT !.at = "ended"] \in CallRows
            BY <3>1 DEF CallRows
        <3>3. caller' \in [Callers -> CallRows]
            BY <2>4, <3>1, <3>2
        <3> QED
            BY <2>3, <2>4, <3>3 DEF CallRows
    <2>7. OnRecordedEvent' /\ EarlyInBatch' /\ ResolvedBeforeAck'
        BY <1>0, <2>3, <2>4, <2>5 DEF Crowded
    <2>8. NoWaitLost'
        BY <1>0, <2>2, <2>3, <2>4
    <2> QED
        BY <2>3, <2>4, <2>6, <2>7, <2>8
<1>8. ASSUME NEW c \in Callers, PutBack(c) PROVE Goal
    BY <1>0, <1>8, ConcludeKeeps DEF PutBack, Crowded
<1>9. ASSUME NEW c \in Callers, CallerDies(c) PROVE Goal
    <2>1. /\ caller' = [caller EXCEPT ![c].at = "ended", ![c].batch = {}]
          /\ UNCHANGED <<inbox, tries, wait, consumer, early, batches, external>>
        BY <1>9 DEF CallerDies
    <2>2. /\ caller' \in [Callers -> CallRows]
          /\ caller'[c].at = "ended"
          /\ \A d \in Callers : caller'[d].event = caller[d].event
          /\ \A d \in Callers \ {c} : caller'[d] = caller[d]
        <3>1. "ended" \in CallerStages /\ {} \in SUBSET Waits
            OBVIOUS
        <3> QED
            BY <2>1, <3>1, CallGoesOn
    <2>3. DeliveryTypeOK'
        BY <2>1, <2>2 DEF CallRows
    <2>4. OnRecordedEvent' /\ EarlyInBatch' /\ ResolvedBeforeAck'
        BY <1>0, <2>1, <2>2 DEF Crowded
    <2> QED
        BY <1>0, <2>1, <2>3, <2>4
<1>10. ASSUME NEW x \in Consumers, NEW e \in Events, ClaimInbox(x, e) PROVE Goal
    <2>1. CASE tries[e] >= DeliveryLimit
        BY <1>0, <1>10, <2>1 DEF ClaimInbox, Crowded
    <2>2. CASE ~(tries[e] >= DeliveryLimit)
        BY <1>0, <1>10, <2>2 DEF ClaimInbox, Crowded
    <2> QED
        BY <2>1, <2>2
<1>11. ASSUME NEW x \in Consumers, NEW status \in {"PROCESSED", "DUPLICATE", "DEAD_LETTER", "RETRY"},
              MarkInbox(x, status)
       PROVE  Goal
    BY <1>0, <1>11, ConcludeKeeps DEF MarkInbox, Crowded
<1>12. CASE UNCHANGED deliveryVars
    BY <1>0, <1>12 DEF deliveryVars, Crowded
<1> QED
    BY <1>1, <1>2, <1>3, <1>4, <1>5, <1>6, <1>7, <1>8, <1>9, <1>10, <1>11, <1>12,
       <1>13, <1>14 DEF DeliveryNext

\* The invariant holds of every behaviour.
LEMMA DeliveryInvariant == DeliverySpec => []DeliveryInv
<1> QED
    BY DeliveryInitially, DeliveryStep, PTL DEF DeliverySpec

\* The Inbox, the waits and the calls in flight keep their types.
THEOREM DeliveryTypes == DeliverySpec => []DeliveryTypeOK
<1>1. DeliveryInv => DeliveryTypeOK
    BY DEF DeliveryInv
<1> QED
    BY <1>1, DeliveryInvariant, PTL

\* When an event that no external consumer ever took is PROCESSED, every wait that
\* was open when it was recorded is over, or was left out of a full batch of waits
\* none of which is younger, for any limit, whoever failed or died.
THEOREM WaitsAreReleased == DeliverySpec => []NoWaitLost
<1>1. DeliveryInv => NoWaitLost
    BY DEF DeliveryInv
<1> QED
    BY <1>1, DeliveryInvariant, PTL

\* An acknowledged event is never reopened.
THEOREM ProcessedRests == DeliverySpec => ProcessedIsFinal
<1>1. DeliveryInv /\ [DeliveryNext]_deliveryVars
      => [\A e \in Events : inbox[e] = "PROCESSED" => inbox'[e] = "PROCESSED"]_deliveryVars
    BY DeliveryStep
<1> QED
    BY <1>1, DeliveryInvariant, PTL DEF DeliverySpec, ProcessedIsFinal

(***************************************************************************)
(* Forks.  A child that may be resumed without a resolution, although some *)
(* call of fork_run returned, was released before: by a resolution, or by  *)
(* an operator who was faster than the hold.                               *)
(***************************************************************************)
CreatedBefore == \A f \in Forkers : forker[f] \in {"created", "checkpointed", "returned"} => child # "NONE"

FreeChildWasReleased ==
    child = "PAUSED" /\ ~hold /\ (\E f \in Forkers : forker[f] = "returned") => resolved \/ premature

ForkInv == ForkTypeOK /\ CreatedBefore /\ ForkIsHeld /\ FreeChildWasReleased

LEMMA ForkInitially == ForkInit => ForkInv
<1> SUFFICES ASSUME ForkInit PROVE ForkInv
    OBVIOUS
<1> USE ForkAssumption DEF ForkInit
<1>1. hold \in BOOLEAN /\ resolved \in BOOLEAN /\ premature \in BOOLEAN
    OBVIOUS
<1>2. child \in ChildStatus /\ forker \in [Forkers -> ForkStages]
    BY DEF ChildStatus, ForkStages
<1>3. approval \in {"NONE", "PENDING", "APPROVED", "REJECTED"} /\ resumes \in 0..ResumeBound
    OBVIOUS
<1>4. CreatedBefore /\ ForkIsHeld /\ FreeChildWasReleased
    BY DEF CreatedBefore, ForkIsHeld, FreeChildWasReleased
<1> QED
    BY <1>1, <1>2, <1>3, <1>4 DEF ForkInv, ForkTypeOK

\* Every step keeps the invariant.
LEMMA ForkStep == ForkInv /\ [ForkNext]_forkVars => ForkInv'
<1> SUFFICES ASSUME ForkInv, [ForkNext]_forkVars PROVE ForkInv'
    OBVIOUS
<1> USE ForkAssumption DEF ForkInv, ForkTypeOK, ChildStatus, ForkStages, CreatedBefore, ForkIsHeld,
                           FreeChildWasReleased, ForkTo
<1>1. ASSUME NEW f \in Forkers, LookForChild(f) PROVE ForkInv'
    BY <1>1 DEF LookForChild
<1>2. ASSUME NEW f \in Forkers, CreateChild(f) PROVE ForkInv'
    <2>1. CASE child = "NONE"
        BY <1>2, <2>1 DEF CreateChild, StartStatus
    <2>2. CASE child # "NONE"
        BY <1>2, <2>2 DEF CreateChild
    <2> QED
        BY <2>1, <2>2
<1>3. ASSUME NEW f \in Forkers, AppendForkCheckpoint(f) PROVE ForkInv'
    BY <1>3 DEF AppendForkCheckpoint
<1>4. ASSUME NEW f \in Forkers, HoldChild(f) PROVE ForkInv'
    BY <1>4 DEF HoldChild
<1>5. ASSUME NEW f \in Forkers, ForkerDies(f) PROVE ForkInv'
    BY <1>5 DEF ForkerDies
<1>6. CASE RequestApproval
    BY <1>6 DEF RequestApproval
<1>7. ASSUME NEW decision \in {"APPROVED", "REJECTED"}, DecideApproval(decision) PROVE ForkInv'
    BY <1>7 DEF DecideApproval
<1>8. ASSUME NEW resolution \in {"NONE", "APPROVAL", "COMPENSATION"}, ResumeChild(resolution)
      PROVE  ForkInv'
    <2>1. ForkTypeOK'
        <3>1. hold' \in BOOLEAN
            BY <1>8 DEF ResumeChild
        <3>2. resolved' \in BOOLEAN
            BY <1>8 DEF ResumeChild
        <3>3. premature' \in BOOLEAN
            BY <1>8 DEF ResumeChild
        <3>4. child' \in ChildStatus /\ forker' \in [Forkers -> ForkStages] /\ resumes' \in 0..ResumeBound
              /\ approval' \in {"NONE", "PENDING", "APPROVED", "REJECTED"}
            BY <1>8 DEF ResumeChild
        <3> QED
            BY <3>1, <3>2, <3>3, <3>4
    <2>2. child = "PAUSED" /\ child' = "RUNNING" /\ forker' = forker
        BY <1>8 DEF ResumeChild
    <2>3. resolved' \/ premature'
        <3>1. CASE hold
            BY <1>8, <3>1 DEF ResumeChild, Accepts
        <3>2. CASE ~hold
            BY <1>8, <3>2 DEF ResumeChild
        <3> QED
            BY <3>1, <3>2
    <2> QED
        BY <2>1, <2>2, <2>3
<1>9. CASE PauseChild
    BY <1>9 DEF PauseChild
<1>10. CASE EndChild
    BY <1>10 DEF EndChild
<1>11. CASE UNCHANGED forkVars
    BY <1>11 DEF forkVars
<1> QED
    BY <1>1, <1>2, <1>3, <1>4, <1>5, <1>6, <1>7, <1>8, <1>9, <1>10, <1>11 DEF ForkNext

\* The invariant holds of every behaviour.
LEMMA ForkInvariant == ForkSpec => []ForkInv
<1> QED
    BY ForkInitially, ForkStep, PTL DEF ForkSpec

\* The child's row, its approval and the calls in flight keep their types.
THEOREM ForkTypes == ForkSpec => []ForkTypeOK
<1>1. ForkInv => ForkTypeOK
    BY DEF ForkInv
<1> QED
    BY <1>1, ForkInvariant, PTL

\* However many calls fork with one key and die on the way, and whatever operators
\* do, the child runs only after a resolution, or because an operator resumed it
\* before any of the calls had returned.
THEOREM ForkHeld == ForkSpec => []ForkIsHeld
<1>1. ForkInv => ForkIsHeld
    BY DEF ForkInv
<1> QED
    BY <1>1, ForkInvariant, PTL

(***************************************************************************)
(* The scheduler's lease.  A row that was read may be stale, except in the *)
(* one case in which the update trusts it: while the scheduler that read   *)
(* it owns the lease, nobody else moved the token.                         *)
(***************************************************************************)
OwnRowIsFresh ==
    \A s \in Schedulers :
        reading[s].at = "update" /\ owner = s =>
            /\ reading[s].by = s /\ reading[s].token = leaseToken
            /\ leaseActive => reading[s].active

SchedulerInv ==
    /\ SchedulerTypeOK
    /\ owner = Free => ~leaseActive
    /\ OwnRowIsFresh

Rows == [at : {"idle", "insert", "update"}, by : Schedulers \cup {Free},
         token : 0..TokenBound, active : BOOLEAN]

LEMMA SchedulerInitially == SchedulerInit => SchedulerInv
<1> SUFFICES ASSUME SchedulerInit PROVE SchedulerInv
    OBVIOUS
<1> USE SchedulerAssumption DEF SchedulerInit
<1>1. NotReading \in Rows /\ NotReading.at = "idle"
    BY DEF NotReading, Rows
<1>2. reading \in [Schedulers -> Rows]
    BY <1>1
<1>3. SchedulerTypeOK
    <2>1. owner \in Schedulers \cup {Free} /\ leaseToken \in 0..TokenBound
        OBVIOUS
    <2>2. leaseActive \in BOOLEAN /\ leaseOver \in BOOLEAN
        OBVIOUS
    <2>3. granted \in [Schedulers -> 0..TokenBound] /\ admitted \subseteq Schedulers
        OBVIOUS
    <2> QED
        BY <1>2, <2>1, <2>2, <2>3 DEF SchedulerTypeOK, Rows
<1>4. OwnRowIsFresh
    BY <1>1 DEF OwnRowIsFresh
<1> QED
    BY <1>3, <1>4 DEF SchedulerInv

\* Every step keeps the invariant.
LEMMA SchedulerStep == SchedulerInv /\ [SchedulerNext]_schedulerVars => SchedulerInv'
<1> SUFFICES ASSUME SchedulerInv, [SchedulerNext]_schedulerVars PROVE SchedulerInv'
    OBVIOUS
<1> USE SchedulerAssumption DEF SchedulerInv, SchedulerTypeOK, OwnRowIsFresh
<1>1. CASE LeaseExpires
    BY <1>1 DEF LeaseExpires, Valid
<1>2. ASSUME NEW s \in Schedulers, ReadLease(s) PROVE SchedulerInv'
    <2>1. CASE Valid /\ owner # s
        BY <1>2, <2>1 DEF ReadLease
    <2>2. CASE ~(Valid /\ owner # s)
        <3> DEFINE row == [at |-> IF owner = Free THEN "insert" ELSE "update",
                           by |-> owner, token |-> leaseToken, active |-> leaseActive]
        <3>1. reading' = [reading EXCEPT ![s] = row]
            BY <1>2, <2>2 DEF ReadLease
        <3>2. UNCHANGED <<owner, leaseToken, leaseActive, leaseOver, admitted, granted>>
            BY <1>2, <2>2 DEF ReadLease
        <3>3. row \in Rows
            BY DEF Rows
        <3>4. reading' \in [Schedulers -> Rows]
            BY <3>1, <3>3 DEF Rows
        <3>5. SchedulerTypeOK'
            BY <3>2, <3>4 DEF Rows
        <3>6. OwnRowIsFresh'
            <4> SUFFICES ASSUME NEW r \in Schedulers, reading'[r].at = "update", owner' = r
                         PROVE  /\ reading'[r].by = r /\ reading'[r].token = leaseToken'
                                /\ leaseActive' => reading'[r].active
                OBVIOUS
            <4>1. CASE r = s
                <5>1. reading'[r] = row
                    BY <3>1, <4>1
                <5> QED
                    BY <3>2, <4>1, <5>1
            <4>2. CASE r # s
                BY <3>1, <3>2, <4>2
            <4> QED
                BY <4>1, <4>2
        <3> QED
            BY <3>2, <3>5, <3>6
    <2> QED
        BY <2>1, <2>2
<1>3. ASSUME NEW s \in Schedulers, InsertLease(s) PROVE SchedulerInv'
    <2>1. CASE owner = Free
        <3>1. NotReading \in Rows /\ NotReading.at = "idle"
            BY DEF NotReading, Rows
        <3>2. reading' = [reading EXCEPT ![s] = NotReading]
            BY <1>3 DEF InsertLease
        <3>3. /\ owner' = s /\ leaseToken' = 1 /\ leaseActive' /\ leaseOver' = FALSE
              /\ granted' = [granted EXCEPT ![s] = 1] /\ admitted' = admitted
            BY <1>3, <2>1 DEF InsertLease
        <3>4. SchedulerTypeOK'
            <4>1. reading' \in [Schedulers -> Rows]
                BY <3>1, <3>2 DEF Rows
            <4>2. leaseActive' \in BOOLEAN
                BY <1>3, <2>1 DEF InsertLease
            <4>3. owner' \in Schedulers \cup {Free} /\ leaseToken' \in 0..TokenBound
                BY <3>3
            <4>4. leaseOver' \in BOOLEAN
                BY <3>3
            <4>5. granted' \in [Schedulers -> 0..TokenBound] /\ admitted' \subseteq Schedulers
                BY <3>3
            <4> QED
                BY <4>1, <4>2, <4>3, <4>4, <4>5 DEF Rows
        <3>5. \A r \in Schedulers : r = owner' => reading'[r].at = "idle"
            BY <3>1, <3>2, <3>3
        <3>6. OwnRowIsFresh'
            BY <3>5
        <3> QED
            BY <3>3, <3>4, <3>6
    <2>2. CASE owner # Free
        BY <1>3, <2>2 DEF InsertLease, NotReading
    <2> QED
        BY <2>1, <2>2
<1>4. ASSUME NEW s \in Schedulers, UpdateLease(s) PROVE SchedulerInv'
    <2>1. NextToken(s) \in Nat
        BY DEF NextToken
    <2>2. CASE Barrier(s)
        <3>1. NotReading \in Rows /\ NotReading.at = "idle"
            BY DEF NotReading, Rows
        <3>2. reading' = [reading EXCEPT ![s] = NotReading]
            BY <1>4 DEF UpdateLease
        <3>3. /\ owner' = s /\ leaseToken' = NextToken(s) /\ NextToken(s) <= TokenBound
              /\ granted' = [granted EXCEPT ![s] = NextToken(s)] /\ admitted' = admitted
            BY <1>4, <2>2 DEF UpdateLease
        <3>4. leaseActive' \in BOOLEAN /\ leaseOver' \in BOOLEAN
            BY <1>4, <2>2 DEF UpdateLease
        <3>5. SchedulerTypeOK'
            <4>1. reading' \in [Schedulers -> Rows]
                BY <3>1, <3>2 DEF Rows
            <4>2. NextToken(s) \in 0..TokenBound
                BY <2>1, <3>3
            <4>3. owner' \in Schedulers \cup {Free} /\ leaseToken' \in 0..TokenBound
                BY <3>3, <4>2
            <4>4. granted' \in [Schedulers -> 0..TokenBound] /\ admitted' \subseteq Schedulers
                BY <3>3, <4>2
            <4> QED
                BY <3>4, <4>1, <4>3, <4>4 DEF Rows
        <3>6. \A r \in Schedulers : r = owner' => reading'[r].at = "idle"
            BY <3>1, <3>2, <3>3
        <3>7. OwnRowIsFresh'
            BY <3>6
        <3> QED
            BY <3>3, <3>5, <3>7
    <2>3. CASE ~Barrier(s)
        BY <1>4, <2>3 DEF UpdateLease, NotReading
    <2> QED
        BY <2>2, <2>3
<1>5. ASSUME NEW s \in Schedulers, VerifyClaim(s) PROVE SchedulerInv'
    BY <1>5 DEF VerifyClaim
<1>6. ASSUME NEW s \in Schedulers, ClaimCommits(s) PROVE SchedulerInv'
    BY <1>6 DEF ClaimCommits
<1>7. ASSUME NEW s \in Schedulers, ReleaseLease(s) PROVE SchedulerInv'
    BY <1>7 DEF ReleaseLease
<1>8. CASE UNCHANGED schedulerVars
    BY <1>8 DEF schedulerVars
<1> QED
    BY <1>1, <1>2, <1>3, <1>4, <1>5, <1>6, <1>7, <1>8 DEF SchedulerNext

\* A step of any scheduler, or of the clock, leaves a valid lease to its owner.
LEMMA ValidLeaseStays ==
    SchedulerInv /\ [SchedulerNext]_schedulerVars /\ Valid => owner' = owner /\ leaseToken' = leaseToken
<1> SUFFICES ASSUME SchedulerInv, [SchedulerNext]_schedulerVars, Valid
             PROVE  owner' = owner /\ leaseToken' = leaseToken
    OBVIOUS
<1>1. owner # Free /\ leaseActive
    BY DEF SchedulerInv, Valid
<1>2. ASSUME NEW s \in Schedulers, InsertLease(s) PROVE owner' = owner /\ leaseToken' = leaseToken
    BY <1>1, <1>2 DEF InsertLease
<1>3. ASSUME NEW s \in Schedulers, UpdateLease(s) PROVE owner' = owner /\ leaseToken' = leaseToken
    <2>1. CASE Barrier(s)
        <3>1. owner = s /\ reading[s].at = "update"
            BY <1>3, <2>1 DEF Barrier, UpdateLease
        <3>2. NextToken(s) = reading[s].token + 0 /\ reading[s].token = leaseToken
            BY <1>1, <3>1 DEF NextToken, SchedulerInv, OwnRowIsFresh
        <3>3. leaseToken \in Nat
            BY DEF SchedulerInv, SchedulerTypeOK
        <3> QED
            BY <1>3, <2>1, <3>1, <3>2, <3>3 DEF UpdateLease
    <2>2. CASE ~Barrier(s)
        BY <1>3, <2>2 DEF UpdateLease
    <2> QED
        BY <2>1, <2>2
<1> QED
    BY <1>2, <1>3 DEF SchedulerNext, LeaseExpires, ReadLease, VerifyClaim, ClaimCommits, ReleaseLease, schedulerVars

\* The invariant holds of every behaviour.
LEMMA SchedulerInvariant == SchedulerSpec => []SchedulerInv
<1> QED
    BY SchedulerInitially, SchedulerStep, PTL DEF SchedulerSpec

\* The lease's row and the calls of its schedulers keep their types.
THEOREM SchedulerTypes == SchedulerSpec => []SchedulerTypeOK
<1>1. SchedulerInv => SchedulerTypeOK
    BY DEF SchedulerInv
<1> QED
    BY <1>1, SchedulerInvariant, PTL

\* A lease that is held and has not run out is taken over by nobody and its token
\* does not move, for any number of schedulers that read the row before.
THEOREM LeaseExclusive == SchedulerSpec => LeaseIsExclusive
<1>1. SchedulerInv /\ [SchedulerNext]_schedulerVars
      => [Valid => owner' = owner /\ leaseToken' = leaseToken]_schedulerVars
    BY ValidLeaseStays
<1> QED
    BY <1>1, SchedulerInvariant, PTL DEF SchedulerSpec, LeaseIsExclusive
===============================================================================
