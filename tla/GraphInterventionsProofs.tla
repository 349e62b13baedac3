----------------------- MODULE GraphInterventionsProofs -----------------------
(***************************************************************************)
(* Theorems about GraphInterventions, for every plan, every number of      *)
(* workers and operators and every value of the bounds: what an Attempt    *)
(* and a join keep while operators reassign Attempts and skip nodes.       *)
(*                                                                         *)
(* AttemptInv of GraphRuntimeProofs does not hold here: a reassignment     *)
(* decided on a stale read puts a node back into the queue that another    *)
(* Attempt runs.  The rows of the nodes and the locks of the claims keep   *)
(* their order all the same.  The theorems about joins and about the       *)
(* progress of a Run are stated here as well, of GraphRuntime alone.       *)
(***************************************************************************)
EXTENDS GraphInterventions, GraphRuntimeProofs

USE DEF RunStatus, NodeStatus, ReadyStatus, AttemptStatus, WaitStatus, JoinStatus, Saved

\* A skip was decided on a Node Run that exists.
SkipsExist == \A k \in Keys : <<"skip", k>> \in reading => node[k] # "NONE"

RowInv == TypeOK /\ RowsHaveNodes /\ LockHolds /\ SkipsExist

\* An intervention preserves the types of the Run's tables.
LEMMA OperatorType == ASSUME TypeOK, OperatorStep PROVE TypeOK'
<1> USE DEF rowVars, attemptVars
<1>1. CASE UNCHANGED vars
  BY <1>1 DEF vars, TypeOK
<1>2. ASSUME NEW a \in Attempts, Reassign(a) PROVE TypeOK'
  BY <1>2 DEF Reassign, Fenced, TypeOK
<1>3. ASSUME NEW k \in Keys, NEW T, Skip(k, T) PROVE TypeOK'
  <2> DEFINE row == IF ready[k] \in Live THEN "DONE" ELSE ready[k]
  <2>1. row \in ReadyStatus /\ "SKIPPED" \in NodeStatus
    BY DEF TypeOK
  <2>2. ActivateAs(k, T, "SKIPPED", row)
    BY <1>3 DEF Skip
  <2> HIDE DEF row
  <2>3. /\ run' \in RunStatus
        /\ node' \in [Keys -> NodeStatus] /\ ready' \in [Keys -> ReadyStatus]
        /\ wait' \in [Keys -> WaitStatus] /\ join' \in [Keys -> JoinStatus]
        /\ inputs' \in [Keys -> SUBSET Keys]
    BY <2>1, <2>2, ActivateType
  <2>4. seq' \in Nat /\ writer' \in Attempts \cup {0} /\ output' \in [Keys -> Nat]
    BY <1>3 DEF Skip, TypeOK
  <2>5. UNCHANGED <<usage, fence, attemptVars, claim, calls, due, acked>>
    BY <1>3 DEF Skip
  <2> QED BY <2>3, <2>4, <2>5 DEF TypeOK
<1> QED BY <1>1, <1>2, <1>3 DEF OperatorStep, ReadAttempt, ReadNode, Decide, GiveUp

\* An intervention is quiet, unless it skips a node and activates what follows.
LEMMA OperatorQuiet ==
    ASSUME RowInv, OperatorStep
    PROVE  \/ Quiet /\ run' = run /\ \A k \in Keys : node'[k] \in {node[k], "READY"}
           \/ \E k \in Keys : \E T \in Selections(k) : \E row : Activates(k, T, "SKIPPED", row)
<1> USE DEF rowVars, attemptVars
<1>0. TypeOK
  BY DEF RowInv
<1>1. CASE UNCHANGED vars
  BY <1>1 DEF vars, Quiet
<1>2. ASSUME NEW a \in Attempts, Reassign(a)
      PROVE  Quiet /\ run' = run /\ \A k \in Keys : node'[k] \in {node[k], "READY"}
  BY <1>0, <1>2 DEF Reassign, Quiet, Live, TypeOK
<1>3. ASSUME NEW k \in Keys, NEW T \in Selections(k), Skip(k, T)
      PROVE  \E row : Activates(k, T, "SKIPPED", row)
  <2> DEFINE row == IF ready[k] \in Live THEN "DONE" ELSE ready[k]
  <2>1. row \in ReadyStatus /\ (ready[k] \notin Live => row = ready[k])
    BY <1>0 DEF TypeOK
  <2>2. ActivateAs(k, T, "SKIPPED", row) /\ node[k] # "NONE" /\ T \in SUBSET Targets(k)
    BY <1>3 DEF Skip, RowInv, SkipsExist, Selections
  <2> HIDE DEF row
  <2>3. Activates(k, T, "SKIPPED", row)
    BY <2>1, <2>2 DEF Activates
  <2> QED BY <2>3
<1> QED BY <1>1, <1>2, <1>3 DEF OperatorStep, ReadAttempt, ReadNode, Decide, GiveUp

\* An intervention waits for the locks of the claims and starts no Attempt.
LEMMA OperatorLocks == ASSUME RowInv, OperatorStep PROVE LockHolds' /\ RunnersKept
<1> USE DEF rowVars, attemptVars
<1>0. TypeOK /\ LockHolds
  BY DEF RowInv
<1>1. CASE UNCHANGED vars
  BY <1>0, <1>1, LockRests DEF vars, RunnersKept
<1>2. ASSUME NEW a \in Attempts, Reassign(a) PROVE LockHolds' /\ RunnersKept
  <2>1. claim' = claim /\ \A k \in Keys : ready[k] = "READY" => ready'[k] = "READY"
    BY <1>0, <1>2 DEF Reassign, TypeOK
  <2>2. RunnersKept
    BY <1>0, <1>2 DEF Reassign, Fenced, RunnersKept, TypeOK
  <2> QED BY <1>0, <2>1, <2>2, LockRests
<1>3. ASSUME NEW k \in Keys, NEW T, Skip(k, T) PROVE LockHolds' /\ RunnersKept
  <2>1. UNCHANGED <<claim, attemptVars>> /\ Unlocked(k)
    BY <1>3 DEF Skip
  <2>2. \A j \in Keys \ {k} : ready[j] = "READY" => ready'[j] = "READY"
    BY <1>0, <1>3, ActivateKeeps DEF Skip, Live
  <2> QED BY <1>0, <2>1, <2>2, LockRests DEF RunnersKept
<1> QED BY <1>1, <1>2, <1>3 DEF OperatorStep, ReadAttempt, ReadNode, Decide, GiveUp

\* Every step is of one of the two kinds.
LEMMA InterventionKinds ==
    ASSUME RowInv, [InterventionNext]_<<vars, operatorVars>>
    PROVE  \/ Quiet
           \/ \E k \in Keys : \E T \in Selections(k) : \E ended, row : Activates(k, T, ended, row)
<1>1. CASE [Next]_vars
  BY <1>1, QuietOrActivates DEF RowInv
<1>2. CASE OperatorStep
  BY <1>2, OperatorQuiet
<1> QED BY <1>1, <1>2 DEF InterventionNext

\* Every step keeps the rows and the locks in order.
LEMMA RowInvStep ==
    ASSUME RowInv, [InterventionNext]_<<vars, operatorVars>>
    PROVE  RowInv'
<1>0. TypeOK /\ RowsHaveNodes /\ LockHolds
  BY DEF RowInv
<1>1. TypeOK' /\ LockHolds' /\ RunnersKept
  <2>1. CASE [Next]_vars
    <3>1. TypeOK'
      BY <1>0, <2>1, ClaimType, CallType, OtherType DEF Next, WorkerStep, ReaperStep
    <3> QED BY <1>0, <2>1, <3>1, LockStep, RunnersStay
  <2>2. CASE OperatorStep
    BY <1>0, <2>2, OperatorType, OperatorLocks
  <2> QED BY <2>1, <2>2 DEF InterventionNext
<1>2. RowsHaveNodes'
  BY <1>0, <1>1, InterventionKinds, RowsStep
<1>3. SkipsExist'
  <2>1. \A k \in Keys : node[k] # "NONE" => node'[k] # "NONE"
    <3>1. CASE Quiet
      BY <3>1 DEF Quiet
    <3>2. ASSUME NEW k, NEW T, NEW ended, NEW row, Activates(k, T, ended, row)
          PROVE  \A t \in Keys : node[t] # "NONE" => node'[t] # "NONE"
      BY <1>0, <3>2, ActivationRows
    <3> QED BY <3>1, <3>2, InterventionKinds
  <2>2. \A k \in Keys : <<"skip", k>> \in reading' => <<"skip", k>> \in reading \/ node[k] # "NONE"
    <3>1. CASE UNCHANGED operatorVars
      BY <3>1 DEF operatorVars
    <3>2. ASSUME NEW a \in Attempts, ReadAttempt(a)
          PROVE  \A k \in Keys : <<"skip", k>> \in reading' => <<"skip", k>> \in reading
      BY <3>2 DEF ReadAttempt, Decide
    <3>3. ASSUME NEW j \in Keys, ReadNode(j)
          PROVE  \A k \in Keys : <<"skip", k>> \in reading'
                                     => <<"skip", k>> \in reading \/ node[k] # "NONE"
      <4>1. node[j] # "NONE" /\ reading' = reading \cup {<<"skip", j>>}
        BY <3>3 DEF ReadNode, Decide
      <4> QED BY <4>1
    <3>4. ASSUME NEW a \in Attempts, Reassign(a) PROVE reading' \subseteq reading
      BY <3>4 DEF Reassign, Record
    <3>5. ASSUME NEW k \in Keys, NEW T, Skip(k, T) PROVE reading' \subseteq reading
      BY <3>5 DEF Skip, Record
    <3>6. ASSUME NEW i \in reading, GiveUp(i) PROVE reading' \subseteq reading
      BY <3>6 DEF GiveUp
    <3> QED BY <3>1, <3>2, <3>3, <3>4, <3>5, <3>6 DEF InterventionNext, OperatorStep
  <2> QED BY <2>1, <2>2 DEF RowInv, SkipsExist
<1> QED BY <1>1, <1>2, <1>3 DEF RowInv

\* While operators intervene, every variable of the Run keeps its type, a node's
\* rows exist only with its Node Run, and claims hold the only locks of READY rows.
THEOREM RowsStayInOrder == InterventionSpec => []RowInv
<1>1. InterventionInit => RowInv
  BY InitType, RowsInitially DEF InterventionInit, RowInv, SkipsExist
<1> QED BY <1>1, RowInvStep, PTL DEF InterventionSpec

\* A join that committed stays so with the inputs it accepted, its node never
\* disappears, and a row of it that is DONE or CANCELLED is never opened again,
\* whichever branches complete late, are skipped or are given to others.
THEOREM JoinsAreOneShot == InterventionSpec => JoinIsOneShot
<1> DEFINE Step == \A t \in Joins : join[t] = "COMMITTED" =>
                      /\ join'[t] = "COMMITTED" /\ inputs'[t] = inputs[t]
                      /\ node'[t] # "NONE"
                      /\ ready[t] \in {"DONE", "CANCELLED"} => ready'[t] = ready[t]
<1>1. ASSUME RowInv, [InterventionNext]_<<vars, operatorVars>> PROVE Step
  <2> SUFFICES ASSUME NEW t \in Joins, join[t] = "COMMITTED"
               PROVE  /\ join'[t] = "COMMITTED" /\ inputs'[t] = inputs[t]
                      /\ node'[t] # "NONE"
                      /\ ready[t] \in {"DONE", "CANCELLED"} => ready'[t] = ready[t]
    OBVIOUS
  <2>0. TypeOK /\ RowsHaveNodes /\ t \in Keys /\ node[t] # "NONE"
    BY <1>1 DEF RowInv, RowsHaveNodes, Joins
  <2>1. CASE Quiet
    BY <2>0, <2>1 DEF Quiet, Live
  <2>2. ASSUME NEW k, NEW T, NEW ended, NEW row, Activates(k, T, ended, row)
        PROVE  /\ join'[t] = "COMMITTED" /\ inputs'[t] = inputs[t]
               /\ node'[t] # "NONE"
               /\ ready[t] \in {"DONE", "CANCELLED"} => ready'[t] = ready[t]
    BY <2>0, <2>2, ActivationRows DEF Live
  <2> QED BY <1>1, <2>1, <2>2, InterventionKinds
<1> QED BY <1>1, RowsStayInOrder, PTL DEF InterventionSpec, JoinIsOneShot

(***************************************************************************)
(* Attempts.  A new one takes a number that no Attempt had, and an update  *)
(* of the status of any other is made under the condition that it runs.    *)
(***************************************************************************)
AttemptsMove ==
    \/ /\ made' = made
       /\ \A a \in Attempts : aStatus'[a] # aStatus[a] =>
             aStatus[a] = "RUNNING" /\ aStatus'[a] \in {"SUCCEEDED", "FAILED", "STALE", "CANCELLED"}
    \/ /\ made' = made + 1 /\ made + 1 \in Attempts
       /\ aStatus' = [aStatus EXCEPT ![made + 1] = "RUNNING"]

LEMMA AttemptsStep == ASSUME TypeOK, [Next]_vars PROVE AttemptsMove
<1> USE DEF rowVars, attemptVars, AttemptsMove
<1>1. ASSUME NEW w \in Workers, ClaimCommit(w) PROVE AttemptsMove
  BY <1>1 DEF ClaimCommit
<1>2. ASSUME NEW a \in Attempts, ReapLease(a) PROVE AttemptsMove
  BY <1>2 DEF ReapLease, Overdue, TypeOK
<1>3. ASSUME NEW c \in calls, Fail(c) PROVE AttemptsMove
  <2>1. /\ aStatus[c.att] = "RUNNING" /\ made' = made
        /\ aStatus' = [aStatus EXCEPT ![c.att] = "FAILED"]
    BY <1>3 DEF Fail, Current
  <2> QED BY <2>1 DEF TypeOK
<1>4. ASSUME NEW c \in calls, NEW over, NEW T, Complete(c, over, T) PROVE AttemptsMove
  <2>1. /\ aStatus[c.att] = "RUNNING" /\ made' = made
        /\ aStatus' = [aStatus EXCEPT ![c.att] = "SUCCEEDED"]
    BY <1>4 DEF Complete, CompletionLease, LeaseLive
  <2> QED BY <2>1 DEF TypeOK
<1>5. CASE Cancel
  BY <1>5 DEF Cancel, TypeOK
<1>6. CASE UNCHANGED <<made, aStatus>>
  BY <1>6
<1> QED BY <1>1, <1>2, <1>3, <1>4, <1>5, <1>6
        DEF Next, WorkerStep, ReaperStep, ControlStep, ClaimSelect, ClaimReserve, ClaimOverBudget,
            ClaimReject, ClaimAbort, Submit, Revoke, Heartbeat, Checkpoint, Replay, Drop, Lapse,
            ReadOverdue, ExpireWait, ResolveWait, Pause, Resume, vars

LEMMA AttemptsInterventionStep ==
    ASSUME TypeOK, [InterventionNext]_<<vars, operatorVars>> PROVE AttemptsMove
<1> USE DEF rowVars, attemptVars
<1>1. CASE [Next]_vars
  BY <1>1, AttemptsStep
<1>2. ASSUME NEW a \in Attempts, Reassign(a) PROVE AttemptsMove
  BY <1>2 DEF Reassign, Fenced, AttemptsMove, TypeOK
<1>3. CASE UNCHANGED <<made, aStatus>>
  BY <1>3 DEF AttemptsMove
<1> QED BY <1>1, <1>2, <1>3
        DEF InterventionNext, OperatorStep, ReadAttempt, ReadNode, Decide, Skip, GiveUp, vars

\* What ended an Attempt is never overwritten, although completions, failures,
\* the reaper, cancellations and operators decide on what they read before.
THEOREM AttemptsAreFinal == InterventionSpec => AttemptIsFinal
<1> DEFINE Step == \A a \in Attempts : Ended(a) => aStatus'[a] = aStatus[a]
<1>1. InterventionInit => Created
  BY BoundAssumption DEF InterventionInit, Init, Created, Attempts
<1>2. ASSUME TypeOK, Created, [InterventionNext]_<<vars, operatorVars>> PROVE Created' /\ Step
  <2>1. made \in Int /\ \A a \in Attempts : a \in Int /\ a >= 1
    BY <1>2, BoundAssumption DEF TypeOK, Attempts
  <2>2. CASE made' = made /\ \A a \in Attempts : aStatus'[a] # aStatus[a] =>
                aStatus[a] = "RUNNING" /\ aStatus'[a] \in {"SUCCEEDED", "FAILED", "STALE", "CANCELLED"}
    BY <1>2, <2>2 DEF Created, Ended
  <2>3. CASE made' = made + 1 /\ made + 1 \in Attempts
             /\ aStatus' = [aStatus EXCEPT ![made + 1] = "RUNNING"]
    <3>1. PICK n \in Attempts : n = made + 1
      BY <2>3
    <3>2. /\ made' = n
          /\ \A a \in Attempts : aStatus'[a] = IF a = n THEN "RUNNING" ELSE aStatus[a]
      BY <1>2, <2>3, <3>1 DEF TypeOK
    <3>3. aStatus[n] = "NONE"
      BY <1>2, <2>1, <3>1 DEF Created
    <3>4. Step
      BY <3>2, <3>3 DEF Ended
    <3>5. Created'
      BY <1>2, <2>1, <3>1, <3>2 DEF Created
    <3> QED BY <3>4, <3>5
  <2> QED BY <1>2, <2>2, <2>3, AttemptsInterventionStep DEF AttemptsMove
<1>3. RowInv => TypeOK
  BY DEF RowInv
<1> QED BY <1>1, <1>2, <1>3, RowsStayInOrder, PTL DEF InterventionSpec, AttemptIsFinal

(***************************************************************************)
(* A cancelled Run under reassignments.  An operator who saw an Attempt    *)
(* run decides on it before the cancellation and writes after it.          *)
(***************************************************************************)
NoSkips == \A k \in Keys : <<"skip", k>> \notin reading
CancelInv == RowInv /\ NobodyRuns /\ CancelFences /\ NoSkips

\* Only cancel_run cancels a Run, and it ends what runs.
LEMMA OnlyCancelCancels ==
    ASSUME TypeOK, [Next]_vars, run' = "CANCELLED", run # "CANCELLED"
    PROVE  \A a \in Attempts : aStatus'[a] # "RUNNING"
<1> USE DEF rowVars, attemptVars
<1>1. ASSUME NEW w \in Workers,
             \/ \E k \in Keys : ClaimSelect(w, k)
             \/ ClaimReserve(w) \/ ClaimOverBudget(w) \/ ClaimReject(w)
             \/ ClaimCommit(w) \/ ClaimAbort(w)
      PROVE  FALSE
  BY <1>1 DEF ClaimSelect, ClaimReserve, ClaimOverBudget, ClaimReject, ClaimCommit, ClaimAbort
<1>2. ASSUME NEW c \in calls, Heartbeat(c) \/ Checkpoint(c) \/ Replay(c) \/ Drop(c) PROVE FALSE
  BY <1>2 DEF Heartbeat, Checkpoint, Replay, Drop
<1>3. ASSUME NEW c \in calls, Fail(c) PROVE FALSE
  <2>1. c.att \in Attempts
    BY DEF TypeOK, Calls
  <2>2. RetryDecision(aKey[c.att], c.arg = "uncertain", fence[aKey[c.att]]) # "CANCELLED"
    BY RetryDecisionType
  <2> QED BY <1>3, <2>2 DEF Fail
<1>4. ASSUME NEW c \in calls, NEW over \in BOOLEAN, NEW T, Complete(c, over, T) PROVE FALSE
  BY <1>4 DEF Complete, Activate, ActivateAs
<1>5. ASSUME NEW a \in Attempts,
             \/ Lapse(a) \/ ReapLease(a) \/ Revoke(a)
             \/ \E op \in Ops : \E arg \in Args(op) : Submit(op, a, arg)
      PROVE  FALSE
  BY <1>5 DEF Lapse, ReapLease, Revoke, Submit
<1>6. ASSUME NEW k \in Keys, ReadOverdue(k) \/ ExpireWait(k) \/ ResolveWait(k) PROVE FALSE
  BY <1>6 DEF ReadOverdue, ExpireWait, ResolveWait
<1>7. CASE Cancel
  BY <1>7 DEF Cancel
<1>8. CASE Pause \/ Resume \/ UNCHANGED vars
  BY <1>8 DEF Pause, Resume, vars
<1> QED BY <1>1, <1>2, <1>3, <1>4, <1>5, <1>6, <1>7, <1>8
        DEF Next, WorkerStep, ReaperStep, ControlStep

\* An operator who reassigns late finds nothing in a cancelled Run to give away.
LEMMA ReassignFences ==
    ASSUME CancelInv, OperatorStep
    PROVE  CancelFences' /\ run' = run
<1> USE DEF rowVars, attemptVars
<1>0. TypeOK /\ NobodyRuns /\ CancelFences
  BY DEF CancelInv, RowInv
<1>1. CASE UNCHANGED vars
  BY <1>0, <1>1, CancelledStill DEF vars
<1>2. ASSUME NEW a \in Attempts, Reassign(a) PROVE CancelFences' /\ run' = run
  <2>1. run' = run
    BY <1>2 DEF Reassign
  <2>2. run = "CANCELLED" => UNCHANGED <<node, ready, wait, aStatus>>
    <3> SUFFICES ASSUME run = "CANCELLED" PROVE UNCHANGED <<node, ready, wait, aStatus>>
      OBVIOUS
    <3> DEFINE k == aKey[a]
    <3>1. \A j \in Keys : ready[j] \notin {"CLAIMED", "WAITING"} /\ node[j] \notin {"RUNNING", "WAITING"}
      BY <1>0 DEF CancelFences
    <3>2. aStatus[a] # "RUNNING"
      BY <1>0 DEF NobodyRuns
    <3>3. aStatus' = aStatus
      BY <1>0, <1>2, <3>2 DEF Reassign, Fenced, TypeOK
    <3>4. ready' = ready /\ node' = node
      BY <1>0, <1>2, <3>1 DEF Reassign, TypeOK
    <3> QED BY <1>2, <3>3, <3>4 DEF Reassign
  <2> QED BY <1>0, <2>1, <2>2 DEF CancelFences, NobodyRuns, LeaseLive
<1>3. ASSUME NEW k \in Keys, NEW T, Skip(k, T) PROVE FALSE
  BY <1>3 DEF Skip, CancelInv, NoSkips
<1> QED BY <1>1, <1>2, <1>3 DEF OperatorStep, ReadAttempt, ReadNode, Decide, GiveUp

\* While operators reassign Attempts but skip no node, a cancelled Run stays
\* fenced: no reassignment decided before the cancellation revives a node after it.
THEOREM CancelIsFinalDespiteReassignments ==
    ASSUME "skip" \notin Interventions
    PROVE  InterventionSpec => []CancelFences
<1>1. InterventionInit => CancelInv
  <2> SUFFICES ASSUME InterventionInit PROVE CancelInv
    OBVIOUS
  <2>1. RowInv
    BY InitType, RowsInitially DEF InterventionInit, RowInv, SkipsExist
  <2>2. NobodyRuns /\ CancelFences /\ NoSkips
    BY DEF InterventionInit, Init, NobodyRuns, CancelFences, NoSkips
  <2> QED BY <2>1, <2>2 DEF CancelInv
<1>2. CancelInv /\ [InterventionNext]_<<vars, operatorVars>> => CancelInv'
  <2> SUFFICES ASSUME CancelInv, [InterventionNext]_<<vars, operatorVars>> PROVE CancelInv'
    OBVIOUS
  <2>0. TypeOK /\ NobodyRuns /\ CancelFences /\ NoSkips /\ RowInv
    BY DEF CancelInv, RowInv
  <2>1. RowInv'
    BY <2>0, RowInvStep
  <2>2. /\ CancelFences' /\ RunnersKept
        /\ run' = "CANCELLED" /\ run # "CANCELLED" => \A a \in Attempts : aStatus'[a] # "RUNNING"
    <3>1. CASE [Next]_vars
      BY <2>0, <3>1, CancelFencesStep, RunnersStay, OnlyCancelCancels
    <3>2. CASE OperatorStep
      BY <2>0, <3>2, ReassignFences, OperatorLocks DEF CancelInv
    <3> QED BY <3>1, <3>2 DEF InterventionNext
  <2>3. NobodyRuns'
    <3> SUFFICES ASSUME run' = "CANCELLED", NEW a \in Attempts, aStatus'[a] = "RUNNING" PROVE FALSE
      BY DEF NobodyRuns
    <3>1. run = "CANCELLED"
      BY <2>2
    <3>2. aKey'[a] \in Keys /\ node'[aKey'[a]] = "RUNNING"
      BY <2>0, <2>2, <3>1 DEF RunnersKept, NobodyRuns
    <3> QED BY <2>2, <3>2 DEF CancelFences
  <2>4. NoSkips'
    <3>1. CASE UNCHANGED operatorVars
      BY <2>0, <3>1 DEF operatorVars, NoSkips
    <3>2. ASSUME NEW a \in Attempts, ReadAttempt(a) PROVE NoSkips'
      BY <2>0, <3>2 DEF ReadAttempt, Decide, NoSkips
    <3>3. ASSUME NEW k \in Keys, ReadNode(k) PROVE FALSE
      BY <3>3 DEF ReadNode, Decide
    <3>4. CASE reading' \subseteq reading
      BY <2>0, <3>4 DEF NoSkips
    <3> QED BY <3>1, <3>2, <3>3, <3>4
            DEF InterventionNext, OperatorStep, Reassign, Skip, GiveUp, Record
  <2> QED BY <2>1, <2>2, <2>3, <2>4 DEF CancelInv
<1> QED BY <1>1, <1>2, PTL DEF InterventionSpec, CancelInv

(***************************************************************************)
(* Joins.  JOIN_STATES keeps the sources that arrived, and the strategy is *)
(* evaluated on their number; what a join promises is about the results    *)
(* its sources committed.  The lemmas relate the two: a strategy that is   *)
(* ready stays so with more arrivals, and the arrivals are results.        *)
(***************************************************************************)
Done == {"SUCCEEDED", "SKIPPED"}

\* A compiled plan has finitely many nodes, so every set of sources is finite.
LEMMA SourcesFinite ==
    ASSUME NEW t, NEW A, A \subseteq Sources(t)
    PROVE  IsFiniteSet(A) /\ Cardinality(A) \in Nat
<1>1. A \in SUBSET Keys
  BY DEF Sources
<1> QED BY <1>1, PlanAssumption, FS_Subset, FS_CardinalityType

\* More arrivals are no fewer.
LEMMA MoreArrivals ==
    ASSUME NEW t, NEW A, NEW C, A \subseteq C, C \subseteq Sources(t)
    PROVE  Cardinality(A) <= Cardinality(C) /\ (Cardinality(C) <= Cardinality(A) => A = C)
<1>1. IsFiniteSet(C) /\ Cardinality(C) \in Nat /\ Cardinality(A) \in Nat /\ A \in SUBSET C
  BY SourcesFinite
<1>2. Cardinality(A) <= Cardinality(C) /\ (Cardinality(C) = Cardinality(A) => C = A)
  BY <1>1, FS_Subset
<1> QED BY <1>1, <1>2

\* Someone arrived exactly when their number is not zero.
LEMMA ArrivalsCount ==
    ASSUME NEW t, NEW A, A \subseteq Sources(t)
    PROVE  A # {} <=> Cardinality(A) >= 1
BY SourcesFinite, FS_EmptySet

\* If the arrivals A make a join ready, the results C they are among satisfy it.
LEMMA ReadyIsSatisfied ==
    ASSUME NEW t \in Keys, NEW A, NEW C, A \subseteq C, C \subseteq Sources(t), A # {},
           JoinReady(t, A)
    PROVE  Satisfied(t, C)
<1>1. /\ Cardinality(A) \in Nat /\ Cardinality(C) \in Nat /\ Cardinality(Sources(t)) \in Nat
      /\ Cardinality(A) <= Cardinality(C) /\ Cardinality(A) <= Cardinality(Sources(t))
      /\ Required[t] \in Nat
  BY SourcesFinite, MoreArrivals, PlanAssumption
<1>2. Strategy[t] \in {"ALL", "ANY", "FIRST_SUCCESS", "N_OF_M", "QUORUM"} /\ C # {}
  BY PlanAssumption
<1>3. CASE Strategy[t] = "ALL"
  <2>1. Cardinality(Sources(t)) <= Cardinality(A)
    BY <1>1, <1>3 DEF JoinReady
  <2>2. A = Sources(t)
    BY <2>1, MoreArrivals
  <2> QED BY <1>3, <2>2 DEF Satisfied
<1>4. CASE Strategy[t] \in {"ANY", "FIRST_SUCCESS"}
  BY <1>2, <1>4 DEF Satisfied
<1>5. CASE Strategy[t] = "N_OF_M"
  BY <1>1, <1>2, <1>5 DEF JoinReady, Satisfied
<1>6. CASE Strategy[t] = "QUORUM"
  <2>1. /\ Cardinality(A) >= Required[t]
        /\ Cardinality(A) >= Cardinality(Sources(t)) \div 2 + 1
    BY <1>6 DEF JoinReady
  <2>2. 2 * (Cardinality(Sources(t)) \div 2 + 1) > Cardinality(Sources(t))
    BY <1>1
  <2>3. Cardinality(Sources(t)) \div 2 \in Nat
    BY <1>1
  <2>4. 2 * Cardinality(C) > Cardinality(Sources(t)) /\ Cardinality(C) >= Required[t]
    BY <1>1, <2>1, <2>2, <2>3
  <2> QED BY <1>6, <2>4 DEF Satisfied
<1> QED BY <1>2, <1>3, <1>4, <1>5, <1>6

\* If results C satisfy a join and all of them arrived, the join is ready.
LEMMA SatisfiedIsReady ==
    ASSUME NEW t \in Joins, NEW A, NEW C, C \subseteq A, A \subseteq Sources(t), Satisfied(t, C)
    PROVE  JoinReady(t, A) /\ A # {}
<1>0. t \in Keys /\ Sources(t) # {}
  BY DEF Joins
<1>1. /\ Cardinality(A) \in Nat /\ Cardinality(C) \in Nat /\ Cardinality(Sources(t)) \in Nat
      /\ Cardinality(C) <= Cardinality(A)
      /\ Required[t] \in Nat
  BY <1>0, SourcesFinite, MoreArrivals, PlanAssumption
<1>2. Strategy[t] \in {"ALL", "ANY", "FIRST_SUCCESS", "N_OF_M", "QUORUM"}
  BY <1>0, PlanAssumption
<1>3. CASE Strategy[t] = "ALL"
  <2>1. C = Sources(t)
    BY <1>3 DEF Satisfied
  <2>2. A = Sources(t)
    BY <2>1
  <2> QED BY <1>0, <1>1, <1>3, <2>2 DEF JoinReady
<1>4. CASE Strategy[t] \in {"ANY", "FIRST_SUCCESS"}
  <2>1. A # {}
    BY <1>4 DEF Satisfied
  <2>2. Cardinality(A) >= 1
    BY <2>1, ArrivalsCount
  <2> QED BY <1>4, <2>1, <2>2 DEF JoinReady
<1>5. CASE Strategy[t] = "N_OF_M"
  BY <1>1, <1>5 DEF JoinReady, Satisfied
<1>6. CASE Strategy[t] = "QUORUM"
  <2>1. 2 * Cardinality(C) > Cardinality(Sources(t)) /\ Cardinality(C) >= Required[t]
    BY <1>6 DEF Satisfied
  <2>2. Cardinality(A) >= Cardinality(Sources(t)) \div 2 + 1
    BY <1>1, <2>1
  <2>3. Cardinality(A) >= 1 /\ Cardinality(A) >= Required[t]
    BY <1>1, <2>1
  <2>4. A # {}
    BY <2>3, ArrivalsCount
  <2> QED BY <1>6, <2>2, <2>3, <2>4 DEF JoinReady
<1> QED BY <1>2, <1>3, <1>4, <1>5, <1>6

(***************************************************************************)
(* A join is earned.  The inductive invariant goes through the row of      *)
(* JOIN_STATES: the node exists only if the row is COMMITTED, the row was  *)
(* committed on arrivals that sufficed, and arrivals are results.          *)
(***************************************************************************)
JoinInv ==
    \A t \in Joins : /\ inputs[t] \subseteq Committed(t)
                     /\ join[t] = "COMMITTED" => inputs[t] # {} /\ JoinReady(t, inputs[t])
                     /\ node[t] # "NONE" => join[t] = "COMMITTED"

\* A result is never taken back.
ResultsKept == \A k \in Keys : node[k] \in Done => node'[k] \in Done

LEMMA JoinInvEarns == JoinInv => JoinIsEarned
<1> SUFFICES ASSUME JoinInv, NEW t \in Joins, node[t] # "NONE" PROVE Satisfied(t, Committed(t))
  BY DEF JoinIsEarned
<1>1. /\ t \in Keys /\ inputs[t] \subseteq Committed(t) /\ Committed(t) \subseteq Sources(t)
      /\ inputs[t] # {} /\ JoinReady(t, inputs[t])
  BY DEF JoinInv, Joins, Committed
<1> QED BY <1>1, ReadyIsSatisfied

\* No edge leads to the entry, so that it is no join.
LEMMA JoinsInitially == Init => JoinInv
<1> SUFFICES ASSUME Init, NEW t \in Joins
             PROVE  inputs[t] = {} /\ join[t] = "NONE" /\ node[t] = "NONE"
  BY DEF JoinInv
<1>1. t \in Keys /\ t # Entry
  BY PlanAssumption DEF Joins, Sources
<1> QED BY <1>1 DEF Init

LEMMA JoinInvStep ==
    ASSUME TypeOK, RowsHaveNodes, JoinInv, ResultsKept,
           \/ Quiet
           \/ \E k, T, ended, row : Activates(k, T, ended, row)
    PROVE  JoinInv'
<1> SUFFICES ASSUME NEW t \in Joins
             PROVE  /\ inputs'[t] \subseteq Committed(t)'
                    /\ join'[t] = "COMMITTED" => inputs'[t] # {} /\ JoinReady(t, inputs'[t])
                    /\ node'[t] # "NONE" => join'[t] = "COMMITTED"
  BY DEF JoinInv, JoinReady
<1>1. /\ t \in Keys /\ inputs[t] \subseteq Committed(t)
      /\ join[t] = "COMMITTED" => inputs[t] # {} /\ JoinReady(t, inputs[t])
      /\ node[t] # "NONE" => join[t] = "COMMITTED"
  BY DEF JoinInv, Joins
<1>2. Committed(t) \subseteq Committed(t)'
  BY DEF Committed, ResultsKept, Done, Sources
<1>3. CASE Quiet
  <2>1. inputs' = inputs /\ join' = join /\ (node'[t] # "NONE" => node[t] # "NONE")
    BY <1>1, <1>3 DEF Quiet
  <2> QED BY <1>1, <1>2, <2>1
<1>4. ASSUME NEW k, NEW T, NEW ended, NEW row, Activates(k, T, ended, row)
      PROVE  /\ inputs'[t] \subseteq Committed(t)'
             /\ join'[t] = "COMMITTED" => inputs'[t] # {} /\ JoinReady(t, inputs'[t])
             /\ node'[t] # "NONE" => join'[t] = "COMMITTED"
  <2>1. /\ k \in Keys /\ node'[k] = ended /\ ended \in Done /\ T \subseteq Targets(k)
        /\ node[k] # "NONE"
    BY <1>4, ActivateKeeps DEF Activates, Done
  <2>2. t \in T => k \in Committed(t)'
    BY <2>1 DEF Committed, Targets, Sources, Done
  <2>3. CASE join[t] = "COMMITTED"
    <3>1. join'[t] = "COMMITTED" /\ inputs'[t] = inputs[t]
      BY <1>1, <1>4, <2>3, ActivationRows
    <3> QED BY <1>1, <1>2, <2>3, <3>1
  <2>4. CASE join[t] # "COMMITTED"
    <3>1. node[t] = "NONE" /\ t # k
      BY <1>1, <2>1, <2>4
    <3>2. /\ inputs'[t] = IF t \in T THEN Arrived(t, k) ELSE inputs[t]
          /\ join'[t] = "COMMITTED" <=> t \in T /\ t \in Opened(k, T)
          /\ node'[t] # "NONE" => t \in Fresh(k, T)
      BY <1>1, <1>4, <2>4, <3>1 DEF Activates, ActivateAs
    <3>3. /\ t \in Fresh(k, T) => t \in T /\ t \in Opened(k, T)
          /\ t \in Opened(k, T) => JoinReady(t, Arrived(t, k))
          /\ Arrived(t, k) = inputs[t] \cup {k}
      BY DEF Fresh, Opened, Arrived
    <3> QED BY <1>1, <1>2, <2>2, <3>2, <3>3
  <2> QED BY <2>3, <2>4
<1> QED BY <1>3, <1>4

\* A worker's calls change no result, except fail_attempt, whose update of the
\* node does not look at its status.
LEMMA ResultsStay ==
    ASSUME TypeOK, [Next]_vars, \A c \in calls : Fail(c) => node[aKey[c.att]] \notin Done
    PROVE  ResultsKept
<1> USE DEF rowVars, attemptVars, ResultsKept, Done
<1>1. ASSUME NEW w \in Workers,
             \/ \E j \in Keys : ClaimSelect(w, j)
             \/ ClaimReserve(w) \/ ClaimOverBudget(w) \/ ClaimReject(w) \/ ClaimAbort(w)
      PROVE  ResultsKept
  BY <1>1 DEF ClaimSelect, ClaimReserve, ClaimOverBudget, ClaimReject, ClaimAbort, TypeOK
<1>2. ASSUME NEW w \in Workers, ClaimCommit(w) PROVE ResultsKept
  BY <1>2 DEF ClaimCommit, TypeOK
<1>3. ASSUME NEW a \in Attempts,
             \/ \E op \in Ops : \E arg \in Args(op) : Submit(op, a, arg)
             \/ Revoke(a) \/ Lapse(a) \/ ReapLease(a)
      PROVE  ResultsKept
  BY <1>3 DEF Submit, Revoke, Lapse, ReapLease, TypeOK
<1>4. ASSUME NEW c \in calls, Heartbeat(c) \/ Checkpoint(c) \/ Replay(c) \/ Drop(c)
      PROVE  ResultsKept
  BY <1>4 DEF Heartbeat, Checkpoint, Replay, Drop
<1>5. ASSUME NEW c \in calls, Fail(c) PROVE ResultsKept
  <2>1. \A j \in Keys \ {aKey[c.att]} : node'[j] = node[j]
    BY <1>5 DEF Fail, TypeOK
  <2> QED BY <1>5, <2>1
<1>6. ASSUME NEW c \in calls, NEW over, NEW T, Complete(c, over, T) PROVE ResultsKept
  BY <1>6, CompleteRows
<1>7. ASSUME NEW j \in Keys, ReadOverdue(j) \/ ExpireWait(j) \/ ResolveWait(j) PROVE ResultsKept
  BY <1>7 DEF ReadOverdue, ExpireWait, ResolveWait, TypeOK
<1>8. CASE ControlStep \/ UNCHANGED vars
  BY <1>8 DEF ControlStep, Cancel, Pause, Resume, vars, TypeOK
<1> QED BY <1>1, <1>2, <1>3, <1>4, <1>5, <1>6, <1>7, <1>8 DEF Next, WorkerStep, ReaperStep

\* Without interventions the node behind a join exists only after the results its
\* strategy asks for were committed, for every plan and strategy and whatever the
\* workers, the reaper and the run controls do.
THEOREM JoinsAreEarned == Spec => []JoinIsEarned
<1>1. ASSUME TypeOK, AttemptInv, RowsHaveNodes, LockHolds, JoinInv, [Next]_vars PROVE JoinInv'
  <2>1. ASSUME NEW c \in calls, Fail(c) PROVE node[aKey[c.att]] \notin Done
    <3>1. c.att \in Attempts /\ aStatus[c.att] = "RUNNING"
      BY <1>1, <2>1 DEF TypeOK, Calls, Fail, Current
    <3> QED BY <1>1, <3>1 DEF AttemptInv, RunnerHolds, Done
  <2>2. ResultsKept
    BY <1>1, <2>1, ResultsStay
  <2> QED BY <1>1, <2>2, QuietOrActivates, JoinInvStep
<1> QED BY <1>1, JoinsInitially, JoinInvEarns, AttemptsInStep, RowsInOrder, PTL DEF Spec

(***************************************************************************)
(* Joins while operators skip nodes and give Attempts away.  The Attempt   *)
(* of a skipped node keeps running, and fail_attempt then overwrites the   *)
(* result of the skip; so the theorems that follow are about workers who   *)
(* do not report failures.                                                 *)
(***************************************************************************)
CallsAreOps == \A c \in calls : c.op \in Ops

LEMMA CallsStep ==
    ASSUME CallsAreOps, [InterventionNext]_<<vars, operatorVars>> PROVE CallsAreOps'
<1>1. CASE calls' \subseteq calls
  BY <1>1 DEF CallsAreOps
<1>2. ASSUME NEW op \in Ops, NEW a, NEW arg, Submit(op, a, arg) PROVE CallsAreOps'
  BY <1>2 DEF Submit, CallsAreOps
<1>3. ASSUME NEW c \in calls, NEW over, NEW T, Complete(c, over, T) PROVE calls' \subseteq calls
  BY <1>3 DEF Complete
<1>4. ASSUME NEW c \in calls, Fail(c) PROVE calls' \subseteq calls
  BY <1>4 DEF Fail
<1>5. ASSUME NEW w \in Workers,
             \/ \E j \in Keys : ClaimSelect(w, j)
             \/ ClaimReserve(w) \/ ClaimOverBudget(w) \/ ClaimReject(w) \/ ClaimCommit(w)
             \/ ClaimAbort(w)
      PROVE  calls' \subseteq calls
  BY <1>5 DEF ClaimSelect, ClaimReserve, ClaimOverBudget, ClaimReject, ClaimCommit, ClaimAbort
<1>6. ASSUME ReaperStep \/ ControlStep \/ UNCHANGED vars PROVE calls' \subseteq calls
  BY <1>6 DEF ReaperStep, Lapse, ReapLease, ReadOverdue, ExpireWait, ResolveWait, ControlStep,
              Cancel, Pause, Resume, vars
<1>7. ASSUME OperatorStep PROVE calls' \subseteq calls
  BY <1>7 DEF OperatorStep, ReadAttempt, ReadNode, Decide, Reassign, Skip, GiveUp, vars
<1>8. ASSUME NEW c \in calls, Heartbeat(c) \/ Checkpoint(c) \/ Replay(c) \/ Drop(c)
      PROVE  calls' \subseteq calls
  BY <1>8 DEF Heartbeat, Checkpoint, Replay, Drop
<1>9. ASSUME NEW a \in Attempts, Revoke(a) PROVE calls' \subseteq calls
  BY <1>9 DEF Revoke
<1> QED BY <1>1, <1>2, <1>3, <1>4, <1>5, <1>6, <1>7, <1>8, <1>9
        DEF InterventionNext, Next, WorkerStep

LEMMA InterventionResults ==
    ASSUME "fail" \notin Ops, RowInv, CallsAreOps, [InterventionNext]_<<vars, operatorVars>>
    PROVE  ResultsKept
<1>0. TypeOK /\ RowsHaveNodes
  BY DEF RowInv
<1>1. CASE [Next]_vars
  BY <1>0, <1>1, ResultsStay DEF CallsAreOps, Fail
<1>2. CASE OperatorStep
  <2>1. ASSUME NEW a \in Attempts, Reassign(a) PROVE ResultsKept
    BY <1>0, <2>1 DEF Reassign, ResultsKept, Done, TypeOK
  <2>2. ASSUME NEW k \in Keys, NEW T, Skip(k, T) PROVE ResultsKept
    BY <1>0, <2>2, ActivateKeeps DEF Skip, ResultsKept, Done
  <2>3. CASE UNCHANGED vars
    BY <2>3 DEF vars, rowVars, ResultsKept
  <2> QED BY <1>2, <2>1, <2>2, <2>3 DEF OperatorStep, ReadAttempt, ReadNode, Decide, GiveUp
<1> QED BY <1>1, <1>2 DEF InterventionNext

\* A join is earned, by results and by skips, also when operators intervene at any
\* moment, provided that no worker fails a node that was skipped meanwhile.
THEOREM JoinsAreEarnedDespiteSkips ==
    ASSUME "fail" \notin Ops
    PROVE  InterventionSpec => []JoinIsEarned
<1>1. InterventionInit => JoinInv /\ CallsAreOps
  BY JoinsInitially DEF InterventionInit, Init, CallsAreOps
<1>2. ASSUME RowInv, JoinInv, CallsAreOps, [InterventionNext]_<<vars, operatorVars>>
      PROVE  JoinInv' /\ CallsAreOps'
  <2>1. TypeOK /\ RowsHaveNodes
    BY <1>2 DEF RowInv
  <2> QED BY <1>2, <2>1, CallsStep, InterventionKinds, InterventionResults, JoinInvStep
<1> QED BY <1>1, <1>2, JoinInvEarns, RowsStayInOrder, PTL DEF InterventionSpec

(***************************************************************************)
(* No arrival is lost.  While the Run goes on, a join that is not open has *)
(* every result of its sources among its arrivals, and they do not suffice *)
(* yet.  A completion that activates nothing ends the Run's progress, and  *)
(* only resume_run and the retry of a failure bring a Run back.            *)
(***************************************************************************)
NoArrivalLost ==
    run \in Going => \A t \in Joins : node[t] = "NONE" =>
        /\ Committed(t) \subseteq inputs[t] /\ inputs[t] \subseteq Sources(t)
        /\ inputs[t] # {} => ~JoinReady(t, inputs[t])

\* A step that commits no result and does not set the Run going.
Neutral ==
    /\ Quiet
    /\ run' \in Going => run \in Going
    /\ \A k \in Keys : node'[k] \in Done => node[k] \in Done

LEMMA InTime == TypeOK /\ NoArrivalLost => JoinOpensInTime
<1> SUFFICES ASSUME NoArrivalLost, run = "RUNNING",
                    NEW t \in Joins, Satisfied(t, Committed(t)), node[t] = "NONE"
             PROVE  FALSE
  BY DEF JoinOpensInTime
<1>1. /\ Committed(t) \subseteq inputs[t] /\ inputs[t] \subseteq Sources(t)
      /\ inputs[t] # {} => ~JoinReady(t, inputs[t])
  BY DEF NoArrivalLost, Going
<1> QED BY <1>1, SatisfiedIsReady

\* Every step is neutral, activates, or ends in a Run that does not go on.
LEMMA NeutralOrActivates ==
    ASSUME "fail" \notin Ops, "pause" \notin Controls, RowInv, CallsAreOps,
           [InterventionNext]_<<vars, operatorVars>>
    PROVE  \/ Neutral
           \/ run' \notin Going
           \/ \E k \in Keys : \E T \in Selections(k) : \E ended, row : Activates(k, T, ended, row)
<1> USE DEF rowVars, attemptVars
<1>0. TypeOK /\ RowsHaveNodes /\ LockHolds
  BY DEF RowInv
<1>1. ASSUME NEW w \in Workers,
             \/ \E k \in Keys : ClaimSelect(w, k)
             \/ ClaimReserve(w) \/ ClaimOverBudget(w) \/ ClaimReject(w)
             \/ ClaimCommit(w) \/ ClaimAbort(w)
      PROVE  Neutral
  <2>1. Quiet
    BY <1>0, <1>1, ClaimQuiet
  <2>2. run' \in Going => run \in Going
    BY <1>1 DEF ClaimSelect, ClaimReserve, ClaimOverBudget, ClaimReject, ClaimCommit, ClaimAbort, Going
  <2>3. \A k \in Keys : node'[k] \in Done => node[k] \in Done
    BY <1>0, <1>1 DEF ClaimSelect, ClaimReserve, ClaimOverBudget, ClaimReject, ClaimCommit,
                      ClaimAbort, Done, TypeOK
  <2> QED BY <2>1, <2>2, <2>3 DEF Neutral
<1>2. ASSUME NEW c \in calls, Heartbeat(c) \/ Checkpoint(c) \/ Replay(c) \/ Fail(c) \/ Drop(c)
      PROVE  Neutral
  <2>1. ~Fail(c)
    BY DEF CallsAreOps, Fail
  <2>2. UNCHANGED <<run, rowVars>>
    BY <1>2, <2>1 DEF Heartbeat, Checkpoint, Replay, Drop
  <2> QED BY <2>2 DEF Neutral, Quiet
<1>3. ASSUME NEW c \in calls, NEW over, NEW T \in Selections(aKey[c.att]), Complete(c, over, T)
      PROVE  \/ run' \notin Going
             \/ \E k \in Keys : \E U \in Selections(k) : \E ended, row : Activates(k, U, ended, row)
  BY <1>0, <1>3, CompleteKinds DEF Activates
<1>4. ASSUME NEW a \in Attempts,
             \/ \E op \in Ops : \E arg \in Args(op) : Submit(op, a, arg)
             \/ Revoke(a) \/ Lapse(a) \/ ReapLease(a)
      PROVE  Neutral
  <2>1. Quiet
    BY <1>0, <1>4, OtherQuiet
  <2>2. run' = run /\ \A k \in Keys : node'[k] \in {node[k], "READY"}
    BY <1>0, <1>4 DEF Submit, Revoke, Lapse, ReapLease, TypeOK
  <2> QED BY <2>1, <2>2 DEF Neutral, Done
<1>5. ASSUME NEW k \in Keys, ReadOverdue(k) \/ ExpireWait(k) \/ ResolveWait(k) PROVE Neutral
  <2>1. Quiet
    BY <1>0, <1>5, OtherQuiet
  <2>2. /\ run' \in Going => run \in Going
        /\ \A j \in Keys : node'[j] \in {node[j], "READY", "FAILED"}
    BY <1>0, <1>5 DEF ReadOverdue, ExpireWait, ResolveWait, TypeOK, Going
  <2> QED BY <2>1, <2>2 DEF Neutral, Done
<1>6. CASE ControlStep \/ UNCHANGED vars
  <2>1. Quiet
    BY <1>0, <1>6, OtherQuiet
  <2>2. /\ run' \in Going => run \in Going
        /\ \A j \in Keys : node'[j] \in {node[j], "CANCELLED"}
    BY <1>0, <1>6 DEF ControlStep, Cancel, Pause, Resume, vars, TypeOK, Going
  <2> QED BY <2>1, <2>2 DEF Neutral, Done
<1>7. CASE OperatorStep
  BY <1>7, OperatorQuiet DEF Neutral, Done
<1> QED BY <1>1, <1>2, <1>3, <1>4, <1>5, <1>6, <1>7
        DEF InterventionNext, Next, WorkerStep, ReaperStep

LEMMA NoArrivalLostStep ==
    ASSUME \A s \in Keys, t \in Joins : <<s, t>> \notin Conditional,
           TypeOK, RowsHaveNodes, NoArrivalLost,
           \/ Neutral
           \/ run' \notin Going
           \/ \E k \in Keys : \E T \in Selections(k) : \E ended, row : Activates(k, T, ended, row)
    PROVE  NoArrivalLost'
<1> SUFFICES ASSUME run' \in Going, NEW t \in Joins, node'[t] = "NONE"
             PROVE  /\ Committed(t)' \subseteq inputs'[t] /\ inputs'[t] \subseteq Sources(t)
                    /\ inputs'[t] # {} => ~JoinReady(t, inputs'[t])
  BY DEF NoArrivalLost, JoinReady
<1>0. t \in Keys
  BY DEF Joins
<1>1. CASE Neutral
  <2>1. /\ run \in Going /\ node[t] = "NONE" /\ inputs'[t] = inputs[t]
        /\ Committed(t)' \subseteq Committed(t)
    BY <1>0, <1>1 DEF Neutral, Quiet, Committed, Sources, Done
  <2> QED BY <2>1 DEF NoArrivalLost
<1>2. ASSUME NEW k \in Keys, NEW T \in Selections(k), NEW ended, NEW row, Activates(k, T, ended, row)
      PROVE  /\ Committed(t)' \subseteq inputs'[t] /\ inputs'[t] \subseteq Sources(t)
             /\ inputs'[t] # {} => ~JoinReady(t, inputs'[t])
  <2>1. run \in Going
    BY <1>2 DEF Activates, ActivateAs, Going, Terminal
  <2>2. node[t] = "NONE" /\ join[t] # "COMMITTED" /\ t \notin Opened(k, T)
    BY <1>0, <1>2, ActivationRows DEF RowsHaveNodes
  <2>3. /\ Committed(t) \subseteq inputs[t] /\ inputs[t] \subseteq Sources(t)
        /\ inputs[t] # {} => ~JoinReady(t, inputs[t])
    BY <2>1, <2>2 DEF NoArrivalLost
  <2>4. Committed(t)' \subseteq Committed(t) \cup {k}
    BY <1>2, ActivateKeeps DEF Activates, Committed, Sources
  <2>5. inputs'[t] = IF t \in T THEN inputs[t] \cup {k} ELSE inputs[t]
    BY <1>0, <1>2, <2>2 DEF Activates, ActivateAs, Arrived
  <2>6. t \in T <=> k \in Sources(t)
    BY <1>0 DEF Selections, Targets, Sources
  <2>7. t \in T => ~JoinReady(t, inputs[t] \cup {k})
    BY <2>2 DEF Opened, Arrived
  <2> QED BY <2>3, <2>4, <2>5, <2>6, <2>7 DEF Committed
<1> QED BY <1>1, <1>2

\* While a Run is RUNNING no join waits longer than until its strategy is satisfied,
\* for every plan whose edges into joins are unconditional, while operators skip
\* nodes and reassign Attempts, as long as nobody pauses the Run and no failure
\* sets it going again.
THEOREM JoinsOpenInTime ==
    ASSUME "fail" \notin Ops, "pause" \notin Controls,
           \A s \in Keys, t \in Joins : <<s, t>> \notin Conditional
    PROVE  InterventionSpec => []JoinOpensInTime
<1>1. InterventionInit => NoArrivalLost /\ CallsAreOps
  <2> SUFFICES ASSUME Init, NEW t \in Joins PROVE Committed(t) = {} /\ inputs[t] = {}
    BY DEF InterventionInit, Init, NoArrivalLost, CallsAreOps
  <2> QED BY DEF Init, Committed, Sources, Joins
<1>2. ASSUME RowInv, NoArrivalLost, CallsAreOps, [InterventionNext]_<<vars, operatorVars>>
      PROVE  NoArrivalLost' /\ CallsAreOps'
  <2>1. TypeOK /\ RowsHaveNodes
    BY <1>2 DEF RowInv
  <2> QED BY <1>2, <2>1, CallsStep, NeutralOrActivates, NoArrivalLostStep
<1>3. RowInv /\ NoArrivalLost => JoinOpensInTime
  BY InTime DEF RowInv
<1> QED BY <1>1, <1>2, <1>3, RowsStayInOrder, PTL DEF InterventionSpec

(***************************************************************************)
(* A Run goes on.  In a plan whose branches never meet, a node that ends   *)
(* is the only source of its targets, so that it finds each of them        *)
(* without a Node Run and opens it.  Where branches meet this fails: an    *)
(* ALL join whose one source failed is not opened by the others.           *)
(***************************************************************************)
\* A node was opened by the result of a source of it.
Sourced ==
    \A t \in Keys : node[t] # "NONE" => t = Entry \/ \E s \in Sources(t) : node[s] \in Done

\* A subscription that waits can wake its node: the converse of SleepersCanWake.
WaitsCanWake ==
    \A k \in Keys : wait[k] = "WAITING" => ready[k] = "WAITING" /\ node[k] = "WAITING"

TreeInv == Sourced /\ WaitsCanWake /\ NotStranded

LEMMA SourcedStep ==
    ASSUME TypeOK, RowsHaveNodes, LockHolds, Sourced, ResultsKept, [Next]_vars
    PROVE  Sourced'
<1> SUFFICES ASSUME NEW t \in Keys, node'[t] # "NONE", t # Entry
             PROVE  \E s \in Sources(t) : node'[s] \in Done
  BY DEF Sourced
<1>1. CASE node[t] # "NONE"
  <2>1. PICK s \in Sources(t) : node[s] \in Done
    BY <1>1 DEF Sourced
  <2> QED BY <2>1 DEF ResultsKept, Sources
<1>2. CASE node[t] = "NONE"
  <2>1. ~Quiet
    BY <1>2 DEF Quiet
  <2>2. PICK k, T, row : Activates(k, T, "SUCCEEDED", row)
    BY <2>1, QuietOrActivates
  <2>3. t # k /\ t \in Fresh(k, T)
    BY <1>2, <2>2 DEF Activates, ActivateAs
  <2>4. t \in Targets(k)
    BY <2>2, <2>3 DEF Activates, Fresh, Opened
  <2>5. k \in Sources(t) /\ node'[k] = "SUCCEEDED"
    BY <2>2, <2>4 DEF Activates, ActivateAs, Targets, Sources
  <2> QED BY <2>5 DEF Done
<1> QED BY <1>1, <1>2

\* What a node that has not ended opens when it ends.
LEMMA TargetsAreFresh ==
    ASSUME Joins = {}, RowsHaveNodes, Sourced,
           NEW k \in Keys, node[k] \notin Done, NEW T \in SUBSET Targets(k)
    PROVE  Fresh(k, T) = T /\ Opened(k, T) = T
<1> SUFFICES ASSUME NEW t \in T PROVE t \in Opened(k, T) /\ ready[t] \notin Live
  BY DEF Fresh, Opened
<1>1. t \in Keys /\ t # Entry /\ k \in Sources(t) /\ \A s \in Sources(t) : s = k
  BY PlanAssumption DEF Targets, Sources, Joins
<1>2. node[t] = "NONE"
  BY <1>1 DEF Sourced
<1> QED BY <1>1, <1>2 DEF Opened, RowsHaveNodes, Live

\* A completion that activates its successors ends the Run or leaves work in it.
LEMMA ActivationGoesOn ==
    ASSUME TypeOK, RowsHaveNodes, Joins = {}, TreeInv,
           NEW k \in Keys, node[k] = "RUNNING", NEW T \in SUBSET Targets(k), Activate(k, T)
    PROVE  WaitsCanWake' /\ NotStranded'
<1>0. Sourced /\ WaitsCanWake /\ NotStranded /\ wait[k] # "WAITING"
  BY DEF TreeInv, WaitsCanWake
<1>1. Fresh(k, T) = T /\ Opened(k, T) = T /\ T \subseteq Keys
  BY <1>0, TargetsAreFresh DEF Done, Targets
<1>2. k \notin T /\ \A t \in T : node[t] = "NONE"
  BY <1>1 DEF Activate, ActivateAs, Insertable
<1>3. /\ \A t \in T : IF t \in WaitKeys
                      THEN node'[t] = "WAITING" /\ ready'[t] = "WAITING" /\ wait'[t] = "WAITING"
                      ELSE ready'[t] = "READY" /\ wait'[t] = wait[t]
      /\ \A t \in Keys \ T : wait'[t] = wait[t]
      /\ \A t \in Keys \ (T \cup {k}) : node'[t] = node[t] /\ ready'[t] = ready[t]
      /\ run' = CASE T # {} /\ run = "RUNNING" /\ T \cap WaitKeys # {} -> "WAITING"
                  [] T = {} /\ run \notin Terminal /\ k \in Exits -> "SUCCEEDED"
                  [] T = {} /\ run \notin Terminal /\ k \notin Exits -> "REVIEW_REQUIRED"
                  [] OTHER -> run
  BY <1>1, <1>2 DEF Activate, ActivateAs
<1>4. WaitsCanWake'
  <2> SUFFICES ASSUME NEW j \in Keys, wait'[j] = "WAITING"
               PROVE  ready'[j] = "WAITING" /\ node'[j] = "WAITING"
    BY DEF WaitsCanWake
  <2>1. CASE j \in T
    <3>1. wait[j] = "NONE"
      BY <1>2, <2>1 DEF RowsHaveNodes
    <3> QED BY <1>3, <2>1, <3>1
  <2>2. CASE j \notin T
    <3>1. wait[j] = "WAITING" /\ j # k
      BY <1>0, <1>3, <2>2
    <3> QED BY <1>0, <1>3, <2>2, <3>1 DEF WaitsCanWake
  <2> QED BY <2>1, <2>2
<1>5. CASE T = {}
  BY <1>3, <1>4, <1>5 DEF NotStranded, Terminal
<1>6. CASE T # {} /\ run = "RUNNING" /\ T \cap WaitKeys # {}
  <2>1. run' = "WAITING"
    BY <1>3, <1>6
  <2>2. PICK t \in T \cap WaitKeys : TRUE
    BY <1>6
  <2>3. t \in Keys /\ wait'[t] = "WAITING"
    BY <1>1, <1>3, <2>2
  <2> QED BY <1>4, <2>1, <2>3 DEF NotStranded
<1>7. CASE T # {} /\ ~(run = "RUNNING" /\ T \cap WaitKeys # {})
  <2>1. run' = run
    BY <1>3, <1>7
  <2>2. ASSUME run = "RUNNING" PROVE \E t \in Keys : ready'[t] = "READY"
    <3>1. PICK t \in T : t \notin WaitKeys
      BY <1>7, <2>2
    <3> QED BY <1>1, <1>3, <3>1
  <2>3. ASSUME run = "WAITING" PROVE \E t \in Keys : wait'[t] = "WAITING"
    <3>1. PICK t \in Keys : wait[t] = "WAITING"
      BY <1>0, <2>3 DEF NotStranded
    <3>2. wait'[t] = "WAITING"
      BY <1>2, <1>3, <3>1 DEF RowsHaveNodes
    <3> QED BY <3>2
  <2> QED BY <1>4, <2>1, <2>2, <2>3 DEF NotStranded
<1> QED BY <1>5, <1>6, <1>7

\* A step that leaves the rows of the Run alone.
RowsRest == UNCHANGED <<run, node, ready, wait>>

LEMMA RestGoesOn == ASSUME TreeInv, RowsRest PROVE WaitsCanWake' /\ NotStranded'
BY DEF TreeInv, RowsRest, WaitsCanWake, NotStranded

\* A claim takes a row over or takes the Run out of its progress.
LEMMA ClaimGoesOn ==
    ASSUME TypeOK, LockHolds, TreeInv, NEW w \in Workers,
           \/ \E k \in Keys : ClaimSelect(w, k)
           \/ ClaimReserve(w) \/ ClaimOverBudget(w) \/ ClaimReject(w)
           \/ ClaimCommit(w) \/ ClaimAbort(w)
    PROVE  WaitsCanWake' /\ NotStranded'
<1> USE DEF rowVars, attemptVars
<1>0. WaitsCanWake /\ NotStranded
  BY DEF TreeInv
<1>1. PICK k \in Keys : k = claim[w].key
  BY DEF TypeOK, Claims
<1>2. CASE (\E j \in Keys : ClaimSelect(w, j)) \/ ClaimReserve(w) \/ ClaimAbort(w)
  BY <1>2, RestGoesOn DEF ClaimSelect, ClaimReserve, ClaimAbort, RowsRest
<1>3. CASE ClaimOverBudget(w)
  <2>1. /\ run' \notin {"RUNNING", "WAITING"} /\ ready[k] = "READY"
        /\ UNCHANGED <<node, wait>> /\ \A j \in Keys \ {k} : ready'[j] = ready[j]
    BY <1>1, <1>3 DEF ClaimOverBudget, TypeOK, Terminal
  <2> QED BY <1>0, <2>1 DEF WaitsCanWake, NotStranded
<1>4. CASE ClaimReject(w)
  <2>1. /\ run' # "RUNNING" /\ (run' = "WAITING" => run = "WAITING") /\ wait' = wait
        /\ \A j \in Keys : /\ ready[j] = "WAITING" => ready'[j] = "WAITING"
                           /\ node[j] = "WAITING" => node'[j] = "WAITING"
    BY <1>1, <1>4 DEF ClaimReject, TypeOK
  <2> QED BY <1>0, <2>1 DEF WaitsCanWake, NotStranded
<1>5. CASE ClaimCommit(w)
  <2>1. /\ UNCHANGED <<run, wait>> /\ ready[k] = "READY"
        /\ ready'[k] = "CLAIMED" /\ node'[k] = "RUNNING"
        /\ \A j \in Keys \ {k} : ready'[j] = ready[j] /\ node'[j] = node[j]
    BY <1>1, <1>5 DEF ClaimCommit, TypeOK, LockHolds
  <2> QED BY <1>0, <2>1 DEF WaitsCanWake, NotStranded
<1> QED BY <1>2, <1>3, <1>4, <1>5

\* A worker's call hands its node on, gives it back or stops the Run.
LEMMA CallGoesOn ==
    ASSUME TypeOK, AttemptInv, RowsHaveNodes, Joins = {}, TreeInv, NEW c \in calls,
           \/ Heartbeat(c) \/ Checkpoint(c) \/ Replay(c) \/ Fail(c) \/ Drop(c)
           \/ \E over \in BOOLEAN, T \in Selections(aKey[c.att]) : Complete(c, over, T)
    PROVE  WaitsCanWake' /\ NotStranded'
<1> USE DEF rowVars, attemptVars
<1>0. WaitsCanWake /\ NotStranded
  BY DEF TreeInv
<1>1. PICK k \in Keys : c.att \in Attempts /\ k = aKey[c.att]
  BY DEF TypeOK, Calls
<1>2. CASE Heartbeat(c) \/ Checkpoint(c) \/ Replay(c) \/ Drop(c)
  BY <1>2, RestGoesOn DEF Heartbeat, Checkpoint, Replay, Drop, RowsRest
<1>3. CASE Fail(c)
  <2>1. node[k] = "RUNNING" /\ ready[k] = "CLAIMED"
    BY <1>1, <1>3 DEF AttemptInv, RunnerHolds, Fail, Current
  <2>2. PICK decision \in {"READY", "FAILED", "REVIEW_REQUIRED"} :
            decision = RetryDecision(k, c.arg = "uncertain", fence[k])
    BY RetryDecisionType
  <2>3. /\ wait' = wait
        /\ \A j \in Keys \ {k} : ready'[j] = ready[j] /\ node'[j] = node[j]
        /\ decision = "READY" => ready'[k] = "READY" /\ run' # "WAITING"
        /\ decision # "READY" => run' \notin {"RUNNING", "WAITING"}
    BY <1>1, <1>3, <2>1, <2>2 DEF Fail, TypeOK, Terminal
  <2> QED BY <1>0, <2>1, <2>2, <2>3 DEF WaitsCanWake, NotStranded
<1>4. ASSUME NEW over \in BOOLEAN, NEW T \in Selections(k), Complete(c, over, T)
      PROVE  WaitsCanWake' /\ NotStranded'
  <2>1. node[k] = "RUNNING" /\ T \in SUBSET Targets(k)
    BY <1>1, <1>4 DEF Complete, Uncommitted, Selections
  <2>2. CASE over \/ run \in {"CANCELLED", "PAUSED", "REVIEW_REQUIRED"}
    <3>1. /\ run' \notin {"RUNNING", "WAITING"} /\ wait' = wait
          /\ \A j \in Keys \ {k} : ready'[j] = ready[j] /\ node'[j] = node[j]
      BY <1>1, <1>4, <2>2 DEF Complete, Terminal, TypeOK
    <3> QED BY <1>0, <2>1, <3>1 DEF WaitsCanWake, NotStranded
  <2>3. CASE ~(over \/ run \in {"CANCELLED", "PAUSED", "REVIEW_REQUIRED"})
    <3>1. Activate(k, T)
      BY <1>1, <1>4, <2>3 DEF Complete
    <3> QED BY <2>1, <3>1, ActivationGoesOn
  <2> QED BY <2>2, <2>3
<1> QED BY <1>1, <1>2, <1>3, <1>4

\* The reaper gives work back, and an event or a deadline ends a wait.
LEMMA OtherGoesOn ==
    ASSUME TypeOK, AttemptInv, TreeInv, "pause" \notin Controls,
           \/ \E a \in Attempts : \/ Lapse(a) \/ ReapLease(a) \/ Revoke(a)
                                  \/ \E op \in Ops : \E arg \in Args(op) : Submit(op, a, arg)
           \/ \E k \in Keys : ReadOverdue(k) \/ ExpireWait(k) \/ ResolveWait(k)
           \/ ControlStep \/ UNCHANGED vars
    PROVE  WaitsCanWake' /\ NotStranded'
<1> USE DEF rowVars, attemptVars
<1>0. WaitsCanWake /\ NotStranded
  BY DEF TreeInv
<1>1. ASSUME NEW a \in Attempts,
             \/ Lapse(a) \/ Revoke(a)
             \/ \E op \in Ops : \E arg \in Args(op) : Submit(op, a, arg)
      PROVE  RowsRest
  BY <1>1 DEF Lapse, Revoke, Submit, RowsRest
<1>2. ASSUME NEW a \in Attempts, ReapLease(a) PROVE WaitsCanWake' /\ NotStranded'
  <2>1. PICK k \in Keys : k = aKey[a]
    BY DEF TypeOK
  <2>2. node[k] = "RUNNING" /\ ready[k] = "CLAIMED"
    BY <1>2, <2>1 DEF AttemptInv, RunnerHolds, ReapLease, Overdue
  <2>3. /\ UNCHANGED <<run, wait>> /\ ready'[k] = "READY"
        /\ \A j \in Keys \ {k} : ready'[j] = ready[j] /\ node'[j] = node[j]
    BY <1>2, <2>1, <2>2 DEF ReapLease, Requeued, TypeOK
  <2> QED BY <1>0, <2>2, <2>3 DEF WaitsCanWake, NotStranded
<1>3. ASSUME NEW k \in Keys, ReadOverdue(k) PROVE RowsRest
  BY <1>3 DEF ReadOverdue, RowsRest
<1>4. ASSUME NEW k \in Keys, ExpireWait(k) PROVE WaitsCanWake' /\ NotStranded'
  <2>1. /\ run' \notin {"RUNNING", "WAITING"} /\ wait'[k] # "WAITING"
        /\ \A j \in Keys \ {k} : ready'[j] = ready[j] /\ node'[j] = node[j] /\ wait'[j] = wait[j]
    BY <1>4 DEF ExpireWait, Expired, TypeOK
  <2> QED BY <1>0, <2>1 DEF WaitsCanWake, NotStranded
<1>5. ASSUME NEW k \in Keys, ResolveWait(k) PROVE WaitsCanWake' /\ NotStranded'
  <2>1. wait[k] = "WAITING" /\ ready[k] = "WAITING"
    BY <1>0, <1>5 DEF ResolveWait, WaitsCanWake
  <2>2. /\ ready'[k] = "READY" /\ wait'[k] # "WAITING"
        /\ \A j \in Keys \ {k} : ready'[j] = ready[j] /\ node'[j] = node[j] /\ wait'[j] = wait[j]
        /\ run' = IF run = "WAITING" /\ \A t \in Keys \ {k} : wait[t] # "WAITING"
                  THEN "RUNNING" ELSE run
    BY <1>5, <2>1 DEF ResolveWait, TypeOK
  <2> QED BY <1>0, <2>2 DEF WaitsCanWake, NotStranded
<1>6. CASE Cancel
  <2>1. run' = "CANCELLED" /\ \A k \in Keys : wait'[k] # "WAITING"
    BY <1>6 DEF Cancel
  <2> QED BY <2>1 DEF WaitsCanWake, NotStranded
<1>7. CASE UNCHANGED vars
  BY <1>7, RestGoesOn DEF vars, RowsRest
<1> QED BY <1>1, <1>2, <1>3, <1>4, <1>5, <1>6, <1>7, RestGoesOn DEF ControlStep, Pause, Resume

\* In a plan whose branches never meet a Run that claims to make progress can:
\* RUNNING, it has a row to claim or in a worker's hands, and WAITING, a subscription
\* to resolve or expire, whatever fails, expires or is rejected or cancelled, as long
\* as nobody pauses it.
THEOREM RunsAreNotStranded ==
    ASSUME Joins = {}, "pause" \notin Controls
    PROVE  Spec => []NotStranded
<1>1. Init => TreeInv
  <2> SUFFICES ASSUME Init PROVE TreeInv
    OBVIOUS
  <2>1. Sourced /\ WaitsCanWake
    BY DEF Init, Sourced, WaitsCanWake
  <2>2. NotStranded
    BY PlanAssumption DEF Init, NotStranded
  <2> QED BY <2>1, <2>2 DEF TreeInv
<1>2. TypeOK /\ AttemptInv /\ RowsHaveNodes /\ LockHolds /\ TreeInv /\ [Next]_vars => TreeInv'
  <2> SUFFICES ASSUME TypeOK, AttemptInv, RowsHaveNodes, LockHolds, TreeInv, [Next]_vars
               PROVE  TreeInv'
    OBVIOUS
  <2>1. ASSUME NEW c \in calls, Fail(c) PROVE node[aKey[c.att]] \notin Done
    <3>1. c.att \in Attempts /\ aStatus[c.att] = "RUNNING"
      BY <2>1 DEF TypeOK, Calls, Fail, Current
    <3> QED BY <3>1 DEF AttemptInv, RunnerHolds, Done
  <2>2. Sourced'
    BY <2>1, ResultsStay, SourcedStep DEF TreeInv
  <2>3. WaitsCanWake' /\ NotStranded'
    BY ClaimGoesOn, CallGoesOn, OtherGoesOn DEF Next, WorkerStep, ReaperStep
  <2> QED BY <2>2, <2>3 DEF TreeInv
<1>3. TreeInv => NotStranded
  BY DEF TreeInv
<1> QED BY <1>1, <1>2, <1>3, AttemptsInStep, RowsInOrder, PTL DEF Spec
===============================================================================
