------------------------- MODULE GraphRuntimeProofs -------------------------
(***************************************************************************)
(* Theorems about GraphRuntime, for every plan, every retry policy, every  *)
(* number of workers and every value of the bounds.                        *)
(***************************************************************************)
EXTENDS GraphRuntime, FiniteSetTheorems, TLAPS

USE DEF RunStatus, NodeStatus, ReadyStatus, AttemptStatus, WaitStatus, JoinStatus, Saved

(***************************************************************************)
(* Type correctness.                                                       *)
(***************************************************************************)

\* side_effect_retry_decision answers with one of three node statuses.
LEMMA RetryDecisionType ==
    ASSUME NEW k, NEW uncertain, NEW used
    PROVE  RetryDecision(k, uncertain, used) \in {"READY", "FAILED", "REVIEW_REQUIRED"}
BY DEF RetryDecision

\* What _activate_downstream_tx writes is well-typed.
LEMMA ActivateType ==
    ASSUME TypeOK, NEW k \in Keys, NEW T, NEW ended \in NodeStatus, NEW row \in ReadyStatus,
           ActivateAs(k, T, ended, row)
    PROVE  /\ run' \in RunStatus
           /\ node' \in [Keys -> NodeStatus] /\ ready' \in [Keys -> ReadyStatus]
           /\ wait' \in [Keys -> WaitStatus] /\ join' \in [Keys -> JoinStatus]
           /\ inputs' \in [Keys -> SUBSET Keys]
<1> USE DEF TypeOK, ActivateAs
<1>1. run' \in RunStatus
  OBVIOUS
<1>2. node' \in [Keys -> NodeStatus]
  OBVIOUS
<1>4. ready' \in [Keys -> ReadyStatus]
  OBVIOUS
<1>5. wait' \in [Keys -> WaitStatus] /\ join' \in [Keys -> JoinStatus]
  OBVIOUS
<1>6. \A t \in Keys : Arrived(t, k) \in SUBSET Keys
  BY DEF Arrived
<1>7. inputs' \in [Keys -> SUBSET Keys]
  BY <1>6
<1> QED BY <1>1, <1>2, <1>4, <1>5, <1>7

\* A Run as create_run leaves it is well-typed.
LEMMA InitType == Init => TypeOK
<1> SUFFICES ASSUME Init PROVE TypeOK
  OBVIOUS
<1> USE PlanAssumption, BoundAssumption DEF Init
<1>1. Idle \in Claims
  BY DEF Idle, Claims
<1>2. claim \in [Workers -> Claims]
  BY <1>1
<1>3. made \in 0..AttemptBound
  OBVIOUS
<1> HIDE DEF Idle, Claims
<1> QED BY <1>2, <1>3 DEF TypeOK

\* Every statement of claim_ready preserves the types.
LEMMA ClaimType ==
    ASSUME TypeOK, NEW w \in Workers,
           \/ \E k \in Keys : ClaimSelect(w, k)
           \/ ClaimReserve(w) \/ ClaimOverBudget(w) \/ ClaimReject(w)
           \/ ClaimCommit(w) \/ ClaimAbort(w)
    PROVE  TypeOK'
<1> USE PlanAssumption, BoundAssumption DEF TypeOK, rowVars, attemptVars
<1>0. /\ Idle \in Claims
      /\ claim[w].key \in Keys /\ claim[w].seen \in Nat
  BY DEF Claims, Idle
<1>1. ASSUME NEW k \in Keys, ClaimSelect(w, k) PROVE TypeOK'
  <2>1. [stage |-> "selected", key |-> k, seen |-> 0] \in Claims
    BY DEF Claims
  <2>2. claim' = [claim EXCEPT ![w] = [stage |-> "selected", key |-> k, seen |-> 0]]
    BY <1>1 DEF ClaimSelect
  <2>3. claim' \in [Workers -> Claims]
    BY <2>1, <2>2
  <2> QED BY <1>1, <2>3 DEF ClaimSelect
<1>2. CASE ClaimReserve(w)
  <2>1. [stage |-> "reserved", key |-> claim[w].key, seen |-> usage] \in Claims
    BY <1>0 DEF Claims
  <2> QED BY <1>0, <1>2, <2>1 DEF ClaimReserve
<1>3. CASE ClaimOverBudget(w)  BY <1>0, <1>3 DEF ClaimOverBudget
<1>4. CASE ClaimReject(w)  BY <1>0, <1>4 DEF ClaimReject
<1>5. CASE ClaimCommit(w)
  <2>1. made' \in 0..AttemptBound
    BY <1>5 DEF ClaimCommit, Attempts
  <2>2. /\ usage' \in Nat /\ fence' \in [Keys -> Nat]
        /\ node' \in [Keys -> NodeStatus] /\ ready' \in [Keys -> ReadyStatus]
    BY <1>0, <1>5 DEF ClaimCommit, NextFence
  <2>3. /\ aKey' \in [Attempts -> Keys] /\ aStatus' \in [Attempts -> AttemptStatus]
        /\ aFence' \in [Attempts -> Nat]
    BY <1>0, <1>5 DEF ClaimCommit, NextFence
  <2>4. claim' \in [Workers -> Claims]
    BY <1>0, <1>5 DEF ClaimCommit
  <2> QED BY <1>5, <2>1, <2>2, <2>3, <2>4 DEF ClaimCommit
<1>6. CASE ClaimAbort(w)  BY <1>0, <1>6 DEF ClaimAbort
<1> QED BY <1>1, <1>2, <1>3, <1>4, <1>5, <1>6

\* Every call of the worker protocol preserves the types.
LEMMA CallType ==
    ASSUME TypeOK, NEW c \in calls,
           \/ Heartbeat(c) \/ Checkpoint(c) \/ Replay(c) \/ Fail(c) \/ Drop(c)
           \/ \E over \in BOOLEAN, T \in Selections(aKey[c.att]) : Complete(c, over, T)
    PROVE  TypeOK'
<1> USE PlanAssumption, BoundAssumption DEF TypeOK, rowVars, attemptVars
<1>0. /\ c \in Calls /\ c.att \in Attempts /\ aKey[c.att] \in Keys
      /\ c.op = "complete" => c.arg \in Digests
  BY DEF Calls, Args
<1>1. CASE Heartbeat(c)  BY <1>0, <1>1 DEF Heartbeat
<1>2. CASE Checkpoint(c)
  <2>1. seq' \in Nat /\ writer' \in Attempts \cup {0} /\ calls' \subseteq Calls
    BY <1>0, <1>2 DEF Checkpoint
  <2> QED BY <1>2, <2>1 DEF Checkpoint
<1>3. CASE Replay(c)  BY <1>0, <1>3 DEF Replay
<1>4. CASE Fail(c)
  <2>1. RetryDecision(aKey[c.att], c.arg = "uncertain", fence[aKey[c.att]])
            \in {"READY", "FAILED", "REVIEW_REQUIRED"}
    BY RetryDecisionType
  <2> QED BY <1>0, <1>4, <2>1 DEF Fail
<1>5. CASE Drop(c)  BY <1>0, <1>5 DEF Drop
<1>6. ASSUME NEW over \in BOOLEAN, NEW T, Complete(c, over, T) PROVE TypeOK'
  <2>1. /\ run' \in RunStatus
        /\ node' \in [Keys -> NodeStatus] /\ ready' \in [Keys -> ReadyStatus]
        /\ wait' \in [Keys -> WaitStatus] /\ join' \in [Keys -> JoinStatus]
        /\ inputs' \in [Keys -> SUBSET Keys]
    <3>1. CASE Activate(aKey[c.att], T)
      <4>1. Consumed(aKey[c.att]) \in ReadyStatus
        BY <1>0 DEF Consumed
      <4> QED BY <1>0, <3>1, <4>1, ActivateType DEF Activate
    <3>2. CASE ~Activate(aKey[c.att], T)
      <4>1. /\ run' \in {run, "REVIEW_REQUIRED"}
            /\ node' = [node EXCEPT ![aKey[c.att]] = "SUCCEEDED"]
            /\ ready' = [ready EXCEPT ![aKey[c.att]] = Consumed(aKey[c.att])]
            /\ UNCHANGED <<wait, join, inputs>>
        BY <1>6, <3>2 DEF Complete
      <4>2. Consumed(aKey[c.att]) \in ReadyStatus
        BY <1>0 DEF Consumed
      <4> QED BY <1>0, <4>1, <4>2
    <3> QED BY <3>1, <3>2
  <2>2. /\ seq' \in Nat /\ writer' \in Attempts
        /\ output' \in [Keys -> Nat] /\ fence' \in [Keys -> Nat]
        /\ aStatus' \in [Attempts -> AttemptStatus]
        /\ digest' \in [Attempts -> Digests \cup {"none"}]
        /\ revoked' \in [Attempts -> BOOLEAN]
    BY <1>0, <1>6 DEF Complete
  <2>3. calls' \subseteq Calls /\ acked' \subseteq Attempts \X Digests \X Nat
    BY <1>0, <1>6 DEF Complete
  <2> QED BY <1>6, <2>1, <2>2, <2>3 DEF Complete
<1> QED BY <1>1, <1>2, <1>3, <1>4, <1>5, <1>6

\* Reaping, waits and run controls preserve the types.
LEMMA OtherType ==
    ASSUME TypeOK,
           \/ \E a \in Attempts : \/ \E op \in Ops : \E arg \in Args(op) : Submit(op, a, arg)
                                  \/ Revoke(a) \/ Lapse(a) \/ ReapLease(a)
           \/ \E k \in Keys : ReadOverdue(k) \/ ExpireWait(k) \/ ResolveWait(k)
           \/ ControlStep
           \/ UNCHANGED vars
    PROVE  TypeOK'
<1> USE DEF TypeOK, rowVars, attemptVars
<1>1. ASSUME NEW a \in Attempts, NEW op \in Ops, NEW arg \in Args(op), Submit(op, a, arg)
      PROVE TypeOK'
  <2>1. [op |-> op, att |-> a, arg |-> arg] \in Calls
    BY BoundAssumption DEF Calls, Args
  <2> QED BY <1>1, <2>1 DEF Submit
<1>2. ASSUME NEW a \in Attempts, Revoke(a) PROVE TypeOK'  BY <1>2 DEF Revoke
<1>3. ASSUME NEW a \in Attempts, Lapse(a) PROVE TypeOK'  BY <1>3 DEF Lapse
<1>4. ASSUME NEW a \in Attempts, ReapLease(a) PROVE TypeOK'
  BY <1>4 DEF ReapLease, Requeued
<1>5. ASSUME NEW k \in Keys, ReadOverdue(k) PROVE TypeOK'  BY <1>5 DEF ReadOverdue
<1>6. ASSUME NEW k \in Keys, ExpireWait(k) PROVE TypeOK'  BY <1>6 DEF ExpireWait, Expired
<1>7. ASSUME NEW k \in Keys, ResolveWait(k) PROVE TypeOK'  BY <1>7 DEF ResolveWait
<1>8. CASE Cancel  BY <1>8 DEF Cancel
<1>9. CASE Pause  BY <1>9 DEF Pause
<1>10. CASE Resume  BY <1>10 DEF Resume
<1>11. CASE UNCHANGED vars  BY <1>11 DEF vars
<1> QED BY <1>1, <1>2, <1>3, <1>4, <1>5, <1>6, <1>7, <1>8, <1>9, <1>10, <1>11 DEF ControlStep

\* Every variable keeps its type: the statuses written are the ones the CHECK
\* constraints of 10_v4_2_0_graph_runtime.sql allow.
THEOREM TypeCorrect == Spec => []TypeOK
<1>1. TypeOK /\ [Next]_vars => TypeOK'
  BY ClaimType, CallType, OtherType DEF Next, WorkerStep, ReaperStep
<1> QED BY InitType, <1>1, PTL DEF Spec

(***************************************************************************)
(* The inductive invariant on Attempts.                                    *)
(***************************************************************************)

\* A node has at most one RUNNING Attempt: two would hold the same token.
LEMMA SoleRunner ==
    ASSUME TypeOK, AttemptInv, NEW a \in Attempts, NEW b \in Attempts,
           aStatus[a] = "RUNNING", aStatus[b] = "RUNNING", aKey[a] = aKey[b]
    PROVE  a = b
<1>1. a \in Int /\ b \in Int /\ made \in Int
  BY BoundAssumption DEF Attempts, TypeOK
<1>2. a <= made /\ b <= made
  BY <1>1 DEF AttemptInv, Created
<1>3. aFence[a] \in Nat /\ aFence[b] \in Nat /\ aFence[a] = aFence[b]
  BY DEF AttemptInv, RunnerHolds, TypeOK
<1>4. ~(a < b) /\ ~(b < a)
  BY <1>2, <1>3 DEF AttemptInv, TokensGrow
<1> QED BY <1>1, <1>4

\* A step that leaves the Attempts and their tokens alone, and neither moves a
\* node that runs or succeeded nor takes a row from its worker.
LEMMA Untouched ==
    ASSUME TypeOK, AttemptInv, UNCHANGED <<made, aKey, aStatus, aFence, fence>>,
           \A k \in Keys : /\ node[k] \in {"RUNNING", "SUCCEEDED"} => node'[k] = node[k]
                           /\ ready[k] = "CLAIMED" /\ node[k] = "RUNNING" => ready'[k] = "CLAIMED"
    PROVE  AttemptInv'
<1>1. \A a \in Attempts : aKey[a] \in Keys
  BY DEF TypeOK
<1>2. Created' /\ TokensBounded' /\ TokensGrow'
  BY DEF AttemptInv, Created, TokensBounded, TokensGrow
<1>3. RunnerHolds' /\ SuccessHolds'
  BY <1>1 DEF AttemptInv, RunnerHolds, SuccessHolds
<1> QED BY <1>2, <1>3 DEF AttemptInv

\* A step that ends one RUNNING Attempt and touches no other node at work.
LEMMA AttemptEnds ==
    ASSUME TypeOK, AttemptInv, NEW a \in Attempts, aStatus[a] = "RUNNING",
           NEW f \in {"SUCCEEDED", "FAILED", "STALE"},
           aStatus' = [aStatus EXCEPT ![a] = f],
           f = "SUCCEEDED" => node'[aKey[a]] = "SUCCEEDED",
           UNCHANGED <<made, aKey, aFence, fence>>,
           \A k \in Keys \ {aKey[a]} :
              /\ node[k] \in {"RUNNING", "SUCCEEDED"} => node'[k] = node[k]
              /\ ready[k] = "CLAIMED" /\ node[k] = "RUNNING" => ready'[k] = "CLAIMED"
    PROVE  AttemptInv'
<1>1. \A b \in Attempts : /\ aKey[b] \in Keys
                          /\ aStatus'[b] = IF b = a THEN f ELSE aStatus[b]
  BY DEF TypeOK
<1>2. Created' /\ TokensBounded' /\ TokensGrow'
  BY <1>1 DEF AttemptInv, Created, TokensBounded, TokensGrow
<1>3. RunnerHolds'
  <2> SUFFICES ASSUME NEW b \in Attempts, aStatus'[b] = "RUNNING"
               PROVE  /\ node'[aKey[b]] = "RUNNING" /\ ready'[aKey[b]] = "CLAIMED"
                      /\ aFence[b] = fence[aKey[b]]
    BY DEF RunnerHolds
  <2>1. b # a /\ aStatus[b] = "RUNNING"
    BY <1>1
  <2>2. aKey[b] # aKey[a]
    BY <2>1, SoleRunner
  <2> QED BY <1>1, <2>1, <2>2 DEF AttemptInv, RunnerHolds
<1>4. SuccessHolds'
  <2> SUFFICES ASSUME NEW b \in Attempts, aStatus'[b] = "SUCCEEDED"
               PROVE  node'[aKey[b]] = "SUCCEEDED"
    BY DEF SuccessHolds
  <2>1. CASE b = a
    BY <1>1, <2>1
  <2>2. CASE b # a
    <3>1. aStatus[b] = "SUCCEEDED" /\ node[aKey[b]] = "SUCCEEDED"
      BY <1>1, <2>2 DEF AttemptInv, SuccessHolds
    <3>2. aKey[b] # aKey[a]
      BY <3>1 DEF AttemptInv, RunnerHolds
    <3> QED BY <1>1, <3>1, <3>2
  <2> QED BY <2>1, <2>2
<1> QED BY <1>2, <1>3, <1>4 DEF AttemptInv

\* _activate_downstream_tx opens only nodes that do not exist yet.
LEMMA ActivateKeeps ==
    ASSUME TypeOK, NEW k \in Keys, NEW T, NEW ended, NEW row, ActivateAs(k, T, ended, row)
    PROVE  /\ node'[k] = ended /\ ready'[k] = row
           /\ \A t \in Keys \ {k} : /\ node[t] # "NONE" => node'[t] = node[t]
                                    /\ ready[t] \in Live => ready'[t] = ready[t]
                                    /\ node'[t] \in {node[t], "READY", "WAITING"}
                                    /\ ready'[t] \in {ready[t], "READY", "WAITING"}
BY DEF TypeOK, ActivateAs, Insertable, Fresh

\* What complete_attempt does to the rows of the nodes.
LEMMA CompleteRows ==
    ASSUME TypeOK, NEW c \in calls, NEW over, NEW T, Complete(c, over, T)
    PROVE  LET k == aKey[c.att]
           IN  /\ c.att \in Attempts /\ k \in Keys /\ c.arg \in Digests
               /\ node[k] = "RUNNING" /\ node'[k] = "SUCCEEDED" /\ ready'[k] = Consumed(k)
               /\ \A t \in Keys \ {k} : /\ node[t] # "NONE" => node'[t] = node[t]
                                        /\ ready[t] \in Live => ready'[t] = ready[t]
                                        /\ node'[t] \in {node[t], "READY", "WAITING"}
                                        /\ ready'[t] \in {ready[t], "READY", "WAITING"}
<1> DEFINE k == aKey[c.att]
<1>1. c.att \in Attempts /\ k \in Keys /\ c.arg \in Digests
  BY DEF TypeOK, Calls, Args, Complete
<1>2. node[k] = "RUNNING"
  BY DEF Complete, Uncommitted
<1>3. CASE Activate(k, T)
  BY <1>1, <1>2, <1>3, ActivateKeeps DEF Activate
<1>4. CASE ~Activate(k, T)
  <2>1. /\ node' = [node EXCEPT ![k] = "SUCCEEDED"]
        /\ ready' = [ready EXCEPT ![k] = Consumed(k)]
    BY <1>4 DEF Complete
  <2> QED BY <1>1, <1>2, <2>1 DEF TypeOK
<1> QED BY <1>3, <1>4

\* claim_ready gives a new Attempt the next token and a node nobody runs.
LEMMA ClaimAttempts ==
    ASSUME TypeOK, AttemptInv, NEW w \in Workers,
           \/ \E k \in Keys : ClaimSelect(w, k)
           \/ ClaimReserve(w) \/ ClaimOverBudget(w) \/ ClaimReject(w)
           \/ ClaimCommit(w) \/ ClaimAbort(w)
    PROVE  AttemptInv'
<1> USE DEF rowVars, attemptVars
<1>0. claim[w].key \in Keys
  BY DEF TypeOK, Claims
<1>1. ASSUME NEW k \in Keys, ClaimSelect(w, k) PROVE AttemptInv'
  BY <1>1, Untouched DEF ClaimSelect
<1>2. CASE ClaimReserve(w)  BY <1>2, Untouched DEF ClaimReserve
<1>3. CASE ClaimOverBudget(w)  BY <1>0, <1>3, Untouched DEF ClaimOverBudget, TypeOK
<1>4. CASE ClaimReject(w)  BY <1>0, <1>4, Untouched DEF ClaimReject, TypeOK
<1>5. CASE ClaimCommit(w)
  <2> DEFINE k == claim[w].key
             n == made + 1
  <2>1. /\ n \in Attempts /\ made \in Nat /\ k \in Keys /\ node[k] = "READY" /\ fence[k] \in Nat
        /\ \A a \in Attempts : a \in Int /\ aKey[a] \in Keys /\ aFence[a] \in Nat
        /\ \A j \in Keys : fence[j] \in Nat
    BY <1>0, <1>5, BoundAssumption DEF ClaimCommit, TypeOK, Attempts
  <2>2. /\ made' = n
        /\ \A a \in Attempts : /\ aKey'[a] = IF a = n THEN k ELSE aKey[a]
                               /\ aStatus'[a] = IF a = n THEN "RUNNING" ELSE aStatus[a]
                               /\ aFence'[a] = IF a = n THEN fence[k] + 1 ELSE aFence[a]
        /\ \A j \in Keys : /\ fence'[j] = IF j = k THEN fence[k] + 1 ELSE fence[j]
                           /\ node'[j] = IF j = k THEN "RUNNING" ELSE node[j]
                           /\ ready'[j] = IF j = k THEN "CLAIMED" ELSE ready[j]
    BY <1>5, <2>1 DEF ClaimCommit, NextFence, TypeOK
  <2>3. \A a \in Attempts : aStatus[a] \in {"RUNNING", "SUCCEEDED"} => a # n /\ aKey[a] # k
    BY <2>1 DEF AttemptInv, Created, RunnerHolds, SuccessHolds
  <2> HIDE DEF k, n
  <2>4. n = made + 1
    BY DEF n
  <2>5. Created'
    BY <2>1, <2>2, <2>4 DEF AttemptInv, Created
  <2>6. TokensBounded'
    BY <2>1, <2>2, <2>4 DEF AttemptInv, TokensBounded
  <2>7. TokensGrow'
    BY <2>1, <2>2, <2>4 DEF AttemptInv, TokensBounded, TokensGrow
  <2>8. RunnerHolds'
    BY <2>1, <2>2, <2>3 DEF AttemptInv, RunnerHolds
  <2>9. SuccessHolds'
    BY <2>1, <2>2, <2>3 DEF AttemptInv, SuccessHolds
  <2> QED BY <2>5, <2>6, <2>7, <2>8, <2>9 DEF AttemptInv
<1>6. CASE ClaimAbort(w)  BY <1>6, Untouched DEF ClaimAbort
<1> QED BY <1>1, <1>2, <1>3, <1>4, <1>5, <1>6

\* A worker call ends at most its own Attempt, with its own rows.
LEMMA CallAttempts ==
    ASSUME TypeOK, AttemptInv, NEW c \in calls,
           \/ Heartbeat(c) \/ Checkpoint(c) \/ Replay(c) \/ Fail(c) \/ Drop(c)
           \/ \E over \in BOOLEAN, T \in Selections(aKey[c.att]) : Complete(c, over, T)
    PROVE  AttemptInv'
<1> USE DEF rowVars, attemptVars
<1>0. c.att \in Attempts /\ aKey[c.att] \in Keys
  BY DEF TypeOK, Calls
<1>1. CASE Heartbeat(c)  BY <1>1, Untouched DEF Heartbeat
<1>2. CASE Checkpoint(c)  BY <1>2, Untouched DEF Checkpoint
<1>3. CASE Replay(c)  BY <1>3, Untouched DEF Replay
<1>4. CASE Fail(c)
  <2>1. /\ aStatus[c.att] = "RUNNING" /\ aStatus' = [aStatus EXCEPT ![c.att] = "FAILED"]
        /\ UNCHANGED <<made, aKey, aFence, fence>>
        /\ \A k \in Keys \ {aKey[c.att]} : node'[k] = node[k] /\ ready'[k] = ready[k]
    BY <1>0, <1>4 DEF Fail, Current, TypeOK
  <2> QED BY <1>0, <2>1, AttemptEnds
<1>5. CASE Drop(c)  BY <1>5, Untouched DEF Drop
<1>6. ASSUME NEW over \in BOOLEAN, NEW T, Complete(c, over, T) PROVE AttemptInv'
  <2>1. /\ aStatus[c.att] = "RUNNING" /\ aStatus' = [aStatus EXCEPT ![c.att] = "SUCCEEDED"]
        /\ UNCHANGED <<made, aKey, aFence, fence>>
    BY <1>6 DEF Complete, CompletionLease, LeaseLive
  <2>2. /\ node'[aKey[c.att]] = "SUCCEEDED"
        /\ \A k \in Keys \ {aKey[c.att]} :
              /\ node[k] \in {"RUNNING", "SUCCEEDED"} => node'[k] = node[k]
              /\ ready[k] = "CLAIMED" => ready'[k] = "CLAIMED"
    BY <1>6, CompleteRows DEF Live
  <2> QED BY <1>0, <2>1, <2>2, AttemptEnds
<1> QED BY <1>1, <1>2, <1>3, <1>4, <1>5, <1>6

\* Reaping, waits and run controls leave the rows of every Attempt that
\* still runs alone.
LEMMA OtherAttempts ==
    ASSUME TypeOK, AttemptInv,
           \/ \E a \in Attempts : \/ \E op \in Ops : \E arg \in Args(op) : Submit(op, a, arg)
                                  \/ Revoke(a) \/ Lapse(a) \/ ReapLease(a)
           \/ \E k \in Keys : ReadOverdue(k) \/ ExpireWait(k) \/ ResolveWait(k)
           \/ ControlStep
           \/ UNCHANGED vars
    PROVE  AttemptInv'
<1> USE DEF rowVars, attemptVars
<1>1. ASSUME NEW a \in Attempts, NEW op, NEW arg, Submit(op, a, arg) PROVE AttemptInv'
  BY <1>1, Untouched DEF Submit
<1>2. ASSUME NEW a \in Attempts, Revoke(a) PROVE AttemptInv'  BY <1>2, Untouched DEF Revoke
<1>3. ASSUME NEW a \in Attempts, Lapse(a) PROVE AttemptInv'  BY <1>3, Untouched DEF Lapse
<1>4. ASSUME NEW a \in Attempts, ReapLease(a) PROVE AttemptInv'
  <2>1. /\ aStatus[a] = "RUNNING" /\ aStatus' = [aStatus EXCEPT ![a] = "STALE"]
        /\ UNCHANGED <<made, aKey, aFence, fence>>
        /\ \A k \in Keys \ {aKey[a]} : node'[k] = node[k] /\ ready'[k] = ready[k]
    BY <1>4 DEF ReapLease, Overdue, TypeOK
  <2> QED BY <2>1, AttemptEnds
<1>5. ASSUME NEW k \in Keys, ReadOverdue(k) PROVE AttemptInv'
  BY <1>5, Untouched DEF ReadOverdue
<1>6. ASSUME NEW k \in Keys, ExpireWait(k) PROVE AttemptInv'
  BY <1>6, Untouched DEF ExpireWait, TypeOK
<1>7. ASSUME NEW k \in Keys, ResolveWait(k) PROVE AttemptInv'
  BY <1>7, Untouched DEF ResolveWait, TypeOK
<1>8. CASE Cancel
  <2>1. /\ UNCHANGED <<made, aKey, aFence, fence>>
        /\ \A a \in Attempts : aKey[a] \in Keys
        /\ \A a \in Attempts : aStatus'[a] = IF aStatus[a] = "RUNNING" THEN "CANCELLED"
                                             ELSE aStatus[a]
        /\ \A k \in Keys : node[k] = "SUCCEEDED" => node'[k] = "SUCCEEDED"
    BY <1>8 DEF Cancel, TypeOK
  <2>2. Created' /\ TokensBounded' /\ TokensGrow'
    BY <2>1 DEF AttemptInv, Created, TokensBounded, TokensGrow
  <2>3. RunnerHolds' /\ SuccessHolds'
    BY <2>1 DEF AttemptInv, RunnerHolds, SuccessHolds
  <2> QED BY <2>2, <2>3 DEF AttemptInv
<1>9. CASE Pause  BY <1>9, Untouched DEF Pause, TypeOK
<1>10. CASE Resume  BY <1>10, Untouched DEF Resume, TypeOK
<1>11. CASE UNCHANGED vars  BY <1>11, Untouched DEF vars
<1> QED BY <1>1, <1>2, <1>3, <1>4, <1>5, <1>6, <1>7, <1>8, <1>9, <1>10, <1>11 DEF ControlStep

\* Tokens grow, and the rows of a node at work are in step with its Attempt.
THEOREM AttemptsInStep == Spec => [](TypeOK /\ AttemptInv)
<1>1. Init => AttemptInv
  BY BoundAssumption DEF Init, AttemptInv, Created, TokensBounded, TokensGrow, RunnerHolds,
                         SuccessHolds, Attempts
<1>2. TypeOK /\ AttemptInv /\ [Next]_vars => AttemptInv'
  BY ClaimAttempts, CallAttempts, OtherAttempts DEF Next, WorkerStep, ReaperStep
<1> QED BY <1>1, <1>2, TypeCorrect, PTL DEF Spec

(***************************************************************************)
(* What follows for the single Attempt and for orphaned work.              *)
(***************************************************************************)

\* A Node Run has at most one RUNNING Attempt, and it holds the highest token,
\* however claims, failures, reaping and cancellation interleave.
THEOREM CurrentAttempt == Spec => []OneCurrentAttempt
<1>1. TypeOK /\ AttemptInv => OneCurrentAttempt
  <2> SUFFICES ASSUME TypeOK, AttemptInv,
                      NEW a \in Attempts, NEW b \in Attempts,
                      aStatus[a] = "RUNNING", aKey[a] = aKey[b], b <= made, b # a
               PROVE  aFence[b] < aFence[a]
    BY DEF OneCurrentAttempt
  <2>1. /\ a \in Int /\ b \in Int /\ made \in Int
        /\ aFence[a] \in Nat /\ aFence[b] \in Nat
    BY BoundAssumption DEF Attempts, TypeOK
  <2>2. a <= made /\ aFence[a] = fence[aKey[a]] /\ aFence[b] <= fence[aKey[b]]
    BY <2>1 DEF AttemptInv, Created, RunnerHolds, TokensBounded
  <2>3. CASE b < a
    BY <2>2, <2>3 DEF AttemptInv, TokensGrow
  <2>4. CASE a < b
    <3>1. aFence[a] < aFence[b]
      BY <2>4 DEF AttemptInv, TokensGrow
    <3> QED BY <2>1, <2>2, <3>1
  <2> QED BY <2>1, <2>3, <2>4
<1> QED BY <1>1, AttemptsInStep, PTL

\* A key whose rows no step takes from a worker, or puts into one's hands,
\* without an Attempt that runs.
LEMMA OrphanStep ==
    ASSUME NoOrphanedWork,
           \A k \in Keys :
              \/ node'[k] # "RUNNING" /\ ready'[k] # "CLAIMED"
              \/ node'[k] \in {"FAILED", "REVIEW_REQUIRED"}
              \/ /\ node'[k] = node[k] /\ ready'[k] = ready[k]
                 /\ \A a \in Attempts : aKey[a] = k /\ aStatus[a] = "RUNNING"
                                        => aKey'[a] = k /\ aStatus'[a] = "RUNNING"
              \/ \E a \in Attempts : aKey'[a] = k /\ aStatus'[a] = "RUNNING"
    PROVE  NoOrphanedWork'
<1> SUFFICES ASSUME NEW k \in Keys,
                    \/ node'[k] = "RUNNING"
                    \/ ready'[k] = "CLAIMED" /\ node'[k] \notin {"FAILED", "REVIEW_REQUIRED"}
             PROVE  \E a \in Attempts : aKey'[a] = k /\ aStatus'[a] = "RUNNING"
  BY DEF NoOrphanedWork
<1> QED BY DEF NoOrphanedWork

\* The rows of key k change, but neither into a worker's hands nor out of them.
LEMMA AsideStep ==
    ASSUME TypeOK, AttemptInv, NoOrphanedWork, UNCHANGED <<aKey, aStatus>>,
           \A k \in Keys :
              \/ node'[k] = node[k] /\ ready'[k] = ready[k]
              \/ node'[k] # "RUNNING" /\ ready'[k] # "CLAIMED"
              \/ /\ node[k] = "WAITING" /\ node'[k] # "RUNNING"
                 /\ ready'[k] = "CLAIMED" => ready[k] = "CLAIMED"
    PROVE  NoOrphanedWork'
<1>1. \A k \in Keys : node[k] = "WAITING" => ready[k] # "CLAIMED"
  BY DEF NoOrphanedWork, AttemptInv, RunnerHolds
<1> QED BY <1>1, OrphanStep

\* claim_ready hands work only to an Attempt that runs.
LEMMA ClaimOrphans ==
    ASSUME TypeOK, AttemptInv, NoOrphanedWork, NEW w \in Workers,
           \/ \E k \in Keys : ClaimSelect(w, k)
           \/ ClaimReserve(w) \/ ClaimOverBudget(w) \/ ClaimReject(w)
           \/ ClaimCommit(w) \/ ClaimAbort(w)
    PROVE  NoOrphanedWork'
<1> USE DEF rowVars, attemptVars
<1>0. claim[w].key \in Keys
  BY DEF TypeOK, Claims
<1>1. ASSUME NEW k \in Keys, ClaimSelect(w, k) PROVE NoOrphanedWork'
  BY <1>1, AsideStep DEF ClaimSelect
<1>2. CASE ClaimReserve(w)  BY <1>2, AsideStep DEF ClaimReserve
<1>3. CASE ClaimOverBudget(w)
  <2>1. node[claim[w].key] # "RUNNING"
    BY <1>0, <1>3 DEF ClaimOverBudget, NoOrphanedWork, AttemptInv, RunnerHolds
  <2> QED BY <1>0, <1>3, <2>1, AsideStep DEF ClaimOverBudget, TypeOK
<1>4. CASE ClaimReject(w)
  <2>1. \A k \in Keys : \/ node'[k] = node[k] /\ ready'[k] = ready[k]
                        \/ node'[k] # "RUNNING" /\ ready'[k] # "CLAIMED"
                        \/ node'[k] \in {"FAILED", "REVIEW_REQUIRED"}
    BY <1>0, <1>4 DEF ClaimReject, TypeOK, NoOrphanedWork, AttemptInv, RunnerHolds
  <2>2. UNCHANGED <<aKey, aStatus>>
    BY <1>4 DEF ClaimReject
  <2> QED BY <2>1, <2>2, OrphanStep
<1>5. CASE ClaimCommit(w)
  <2> DEFINE k == claim[w].key
             n == made + 1
  <2>1. /\ n \in Attempts /\ aStatus[n] = "NONE"
        /\ aKey' = [aKey EXCEPT ![n] = k] /\ aStatus' = [aStatus EXCEPT ![n] = "RUNNING"]
    <3>1. n \in Attempts /\ n > made
      BY <1>5 DEF ClaimCommit, TypeOK
    <3> QED BY <1>5, <3>1 DEF ClaimCommit, AttemptInv, Created
  <2>2. aKey'[n] = k /\ aStatus'[n] = "RUNNING"
    BY <2>1 DEF TypeOK
  <2>3. \A a \in Attempts : aStatus[a] = "RUNNING" => aKey'[a] = aKey[a] /\ aStatus'[a] = "RUNNING"
    BY <2>1 DEF TypeOK
  <2>4. \A j \in Keys \ {k} : node'[j] = node[j] /\ ready'[j] = ready[j]
    BY <1>5 DEF ClaimCommit, TypeOK
  <2> QED BY <2>1, <2>2, <2>3, <2>4, OrphanStep
<1>6. CASE ClaimAbort(w)  BY <1>6, AsideStep DEF ClaimAbort
<1> QED BY <1>1, <1>2, <1>3, <1>4, <1>5, <1>6

\* A worker call that ends an Attempt takes the node's rows out of its hands.
LEMMA CallOrphans ==
    ASSUME TypeOK, AttemptInv, NoOrphanedWork, NEW c \in calls,
           \/ Heartbeat(c) \/ Checkpoint(c) \/ Replay(c) \/ Fail(c) \/ Drop(c)
           \/ \E over \in BOOLEAN, T \in Selections(aKey[c.att]) : Complete(c, over, T)
    PROVE  NoOrphanedWork'
<1> USE DEF rowVars, attemptVars
<1>0. c.att \in Attempts /\ aKey[c.att] \in Keys
  BY DEF TypeOK, Calls
<1>1. CASE Heartbeat(c)  BY <1>1, AsideStep DEF Heartbeat
<1>2. CASE Checkpoint(c)  BY <1>2, AsideStep DEF Checkpoint
<1>3. CASE Replay(c)  BY <1>3, AsideStep DEF Replay
<1>4. CASE Fail(c)
  <2> DEFINE k == aKey[c.att]
             decision == RetryDecision(k, c.arg = "uncertain", fence[k])
  <2>1. decision \in {"READY", "FAILED", "REVIEW_REQUIRED"}
    BY RetryDecisionType
  <2>2. /\ aKey' = aKey /\ aStatus' = [aStatus EXCEPT ![c.att] = "FAILED"]
        /\ node' = [node EXCEPT ![k] = decision]
        /\ decision = "READY" => ready'[k] # "CLAIMED"
        /\ \A j \in Keys \ {k} : ready'[j] = ready[j]
    BY <1>0, <1>4 DEF Fail, TypeOK
  <2> HIDE DEF decision
  <2>3. node'[k] = decision /\ \A j \in Keys \ {k} : node'[j] = node[j]
    BY <1>0, <2>2 DEF TypeOK
  <2>4. \A a \in Attempts : aKey[a] # k => aStatus'[a] = aStatus[a]
    BY <2>2 DEF TypeOK
  <2> QED BY <1>0, <2>1, <2>2, <2>3, <2>4, OrphanStep
<1>5. CASE Drop(c)  BY <1>5, AsideStep DEF Drop
<1>6. ASSUME NEW over \in BOOLEAN, NEW T, Complete(c, over, T) PROVE NoOrphanedWork'
  <2> DEFINE k == aKey[c.att]
  <2>1. /\ aKey' = aKey /\ aStatus' = [aStatus EXCEPT ![c.att] = "SUCCEEDED"]
    BY <1>6 DEF Complete
  <2>2. \A a \in Attempts : aKey[a] # k => aStatus'[a] = aStatus[a]
    BY <2>1 DEF TypeOK
  <2>3. node'[k] = "SUCCEEDED" /\ ready'[k] # "CLAIMED"
    BY <1>6, CompleteRows DEF Consumed
  <2>4. \A j \in Keys \ {k} : \/ node'[j] = node[j] /\ ready'[j] = ready[j]
                              \/ node'[j] # "RUNNING" /\ ready'[j] # "CLAIMED"
    <3> SUFFICES ASSUME NEW j \in Keys \ {k}
                 PROVE  \/ node'[j] = node[j] /\ ready'[j] = ready[j]
                        \/ node'[j] # "RUNNING" /\ ready'[j] # "CLAIMED"
      OBVIOUS
    <3>1. /\ node[j] # "NONE" => node'[j] = node[j]
          /\ ready[j] \in Live => ready'[j] = ready[j]
          /\ node'[j] \in {node[j], "READY", "WAITING"}
          /\ ready'[j] \in {ready[j], "READY", "WAITING"}
      BY <1>6, CompleteRows
    <3>2. ready[j] = "CLAIMED" /\ node[j] = "NONE" => FALSE
      BY DEF NoOrphanedWork, AttemptInv, RunnerHolds
    <3>3. node[j] = "RUNNING" => ready[j] = "CLAIMED"
      BY DEF NoOrphanedWork, AttemptInv, RunnerHolds
    <3> QED BY <3>1, <3>2, <3>3 DEF Live
  <2> QED BY <1>0, <2>1, <2>2, <2>3, <2>4, OrphanStep
<1> QED BY <1>1, <1>2, <1>3, <1>4, <1>5, <1>6

\* Reaping, waits and run controls leave no node RUNNING without its Attempt.
LEMMA OtherOrphans ==
    ASSUME TypeOK, AttemptInv, NoOrphanedWork,
           \/ \E a \in Attempts : \/ \E op \in Ops : \E arg \in Args(op) : Submit(op, a, arg)
                                  \/ Revoke(a) \/ Lapse(a) \/ ReapLease(a)
           \/ \E k \in Keys : ReadOverdue(k) \/ ExpireWait(k) \/ ResolveWait(k)
           \/ ControlStep
           \/ UNCHANGED vars
    PROVE  NoOrphanedWork'
<1> USE DEF rowVars, attemptVars
<1>1. ASSUME NEW a \in Attempts, NEW op, NEW arg, Submit(op, a, arg) PROVE NoOrphanedWork'
  BY <1>1, AsideStep DEF Submit
<1>2. ASSUME NEW a \in Attempts, Revoke(a) PROVE NoOrphanedWork'  BY <1>2, AsideStep DEF Revoke
<1>3. ASSUME NEW a \in Attempts, Lapse(a) PROVE NoOrphanedWork'  BY <1>3, AsideStep DEF Lapse
<1>4. ASSUME NEW a \in Attempts, ReapLease(a) PROVE NoOrphanedWork'
  <2>1. /\ aKey[a] \in Keys /\ aKey' = aKey
        /\ aStatus' = [aStatus EXCEPT ![a] = "STALE"]
        /\ node[aKey[a]] = "RUNNING" /\ ready[aKey[a]] = "CLAIMED"
    BY <1>4 DEF ReapLease, Overdue, TypeOK, AttemptInv, RunnerHolds
  <2>2. /\ node'[aKey[a]] = "READY" /\ ready'[aKey[a]] = "READY"
        /\ \A k \in Keys \ {aKey[a]} : node'[k] = node[k] /\ ready'[k] = ready[k]
    BY <1>4, <2>1 DEF ReapLease, Requeued, TypeOK
  <2>3. \A b \in Attempts : aKey[b] # aKey[a] => aStatus'[b] = aStatus[b]
    BY <2>1 DEF TypeOK
  <2> QED BY <2>1, <2>2, <2>3, OrphanStep
<1>5. ASSUME NEW k \in Keys, ReadOverdue(k) PROVE NoOrphanedWork'
  BY <1>5, AsideStep DEF ReadOverdue
<1>6. ASSUME NEW k \in Keys, ExpireWait(k) PROVE NoOrphanedWork'
  <2>1. node[k] = "RUNNING" => ready[k] = "CLAIMED"
    BY DEF NoOrphanedWork, AttemptInv, RunnerHolds
  <2> QED BY <1>6, <2>1, AsideStep DEF ExpireWait, TypeOK
<1>7. ASSUME NEW k \in Keys, ResolveWait(k) PROVE NoOrphanedWork'
  <2>1. node[k] = "RUNNING" => ready[k] = "CLAIMED"
    BY DEF NoOrphanedWork, AttemptInv, RunnerHolds
  <2> QED BY <1>7, <2>1, AsideStep DEF ResolveWait, TypeOK
<1>8. CASE Cancel
  <2>1. \A k \in Keys : node'[k] # "RUNNING" /\ ready'[k] # "CLAIMED"
    BY <1>8 DEF Cancel, Live
  <2> QED BY <2>1, OrphanStep
<1>9. CASE Pause
  <2>1. \A k \in Keys : node[k] = "RUNNING" => ready[k] = "CLAIMED"
    BY DEF NoOrphanedWork, AttemptInv, RunnerHolds
  <2> QED BY <1>9, <2>1, AsideStep DEF Pause, TypeOK
<1>10. CASE Resume
  <2>1. \A k \in Keys : node[k] = "RUNNING" => ready[k] = "CLAIMED"
    BY DEF NoOrphanedWork, AttemptInv, RunnerHolds
  <2> QED BY <1>10, <2>1, AsideStep DEF Resume, TypeOK
<1>11. CASE UNCHANGED vars  BY <1>11, AsideStep DEF vars
<1> QED BY <1>1, <1>2, <1>3, <1>4, <1>5, <1>6, <1>7, <1>8, <1>9, <1>10, <1>11 DEF ControlStep

\* Work in a worker's hands always has an Attempt whose lease the reaper can
\* take back: no order of claims, failures, pauses and waits strands it.
THEOREM NoOrphans == Spec => []NoOrphanedWork
<1>1. Init => NoOrphanedWork
  BY DEF Init, NoOrphanedWork
<1>2. TypeOK /\ AttemptInv /\ NoOrphanedWork /\ [Next]_vars => NoOrphanedWork'
  BY ClaimOrphans, CallOrphans, OtherOrphans DEF Next, WorkerStep, ReaperStep
<1> QED BY <1>1, <1>2, AttemptsInStep, PTL DEF Spec

(***************************************************************************)
(* Completions.                                                            *)
(***************************************************************************)

\* Every output checkpoint is written by the node's current Attempt, under a
\* lease that is valid at that moment.
THEOREM CommitsAreCurrent == Spec => CommitIsCurrent
<1>1. ASSUME TypeOK, AttemptInv, NEW c \in calls, NEW over, NEW T, Complete(c, over, T)
      PROVE  CommitStep
  <2>1. /\ c.att \in Attempts /\ LeaseLive(c.att) /\ writer' = c.att
        /\ output' = [output EXCEPT ![aKey[c.att]] = seq + 1]
        /\ aStatus' = [aStatus EXCEPT ![c.att] = "SUCCEEDED"]
    BY <1>1 DEF Complete, CompletionLease, TypeOK, Calls
  <2>2. aFence[c.att] = fence[aKey[c.att]] /\ aStatus'[c.att] = "SUCCEEDED"
    BY <1>1, <2>1 DEF LeaseLive, AttemptInv, RunnerHolds, TypeOK
  <2>3. \A k \in Keys : output'[k] # output[k] => k = aKey[c.att]
    BY <1>1, <2>1 DEF TypeOK
  <2> QED BY <2>1, <2>2, <2>3 DEF CommitStep
<1>2. ASSUME TypeOK, AttemptInv, [Next]_vars PROVE CommitStep
  <2>1. CASE UNCHANGED output
    BY <2>1 DEF CommitStep
  <2>2. CASE \E c \in calls, over \in BOOLEAN, T \in SUBSET Keys : Complete(c, over, T)
    BY <1>1, <1>2, <2>2
  <2>3. \/ UNCHANGED output
        \/ \E c \in calls, over \in BOOLEAN, T \in SUBSET Keys : Complete(c, over, T)
    <3> USE DEF rowVars, attemptVars
    <3>1. CASE WorkerStep
      <4>1. ASSUME NEW c \in calls, NEW over \in BOOLEAN,
                   NEW T \in Selections(aKey[c.att]), Complete(c, over, T)
            PROVE  \E d \in calls, o \in BOOLEAN, U \in SUBSET Keys : Complete(d, o, U)
        BY <4>1 DEF Selections, Targets
      <4>2. ASSUME NEW w \in Workers,
                   \/ \E k \in Keys : ClaimSelect(w, k)
                   \/ ClaimReserve(w) \/ ClaimOverBudget(w) \/ ClaimReject(w)
                   \/ ClaimCommit(w) \/ ClaimAbort(w)
            PROVE  UNCHANGED output
        BY <4>2 DEF ClaimSelect, ClaimReserve, ClaimOverBudget, ClaimCommit, ClaimReject, ClaimAbort
      <4>3. ASSUME NEW a \in Attempts,
                   \/ \E op \in Ops : \E arg \in Args(op) : Submit(op, a, arg)
                   \/ Revoke(a)
            PROVE  UNCHANGED output
        BY <4>3 DEF Submit, Revoke
      <4>4. ASSUME NEW c \in calls,
                   Heartbeat(c) \/ Checkpoint(c) \/ Replay(c) \/ Fail(c) \/ Drop(c)
            PROVE  UNCHANGED output
        BY <4>4 DEF Heartbeat, Checkpoint, Replay, Fail, Drop
      <4> QED BY <3>1, <4>1, <4>2, <4>3, <4>4 DEF WorkerStep
    <3>2. CASE ReaperStep
      BY <3>2 DEF ReaperStep, Lapse, ReapLease, ReadOverdue, ExpireWait, ResolveWait
    <3>3. CASE ControlStep
      BY <3>3 DEF ControlStep, Cancel, Pause, Resume
    <3>4. CASE UNCHANGED vars
      BY <3>4 DEF vars
    <3> QED BY <1>2, <3>1, <3>2, <3>3, <3>4 DEF Next
  <2> QED BY <2>1, <2>2, <2>3
<1>3. Spec => [][CommitStep]_vars
  BY <1>2, AttemptsInStep, PTL DEF Spec
<1> QED BY <1>3, PTL DEF CommitIsCurrent

(***************************************************************************)
(* The end of a Run.                                                       *)
(***************************************************************************)

\* No handler writes the status of a Run that SUCCEEDED or was CANCELLED.
THEOREM OutcomesAreFinal == Spec => OutcomeIsFinal
<1>1. ASSUME [Next]_vars PROVE OutcomeStep
  <2> USE DEF OutcomeStep, Terminal
  <2>1. ASSUME NEW w \in Workers,
               \/ \E k \in Keys : ClaimSelect(w, k)
               \/ ClaimReserve(w) \/ ClaimOverBudget(w) \/ ClaimReject(w)
               \/ ClaimCommit(w) \/ ClaimAbort(w)
        PROVE  OutcomeStep
    BY <2>1 DEF ClaimSelect, ClaimReserve, ClaimOverBudget, ClaimReject, ClaimCommit, ClaimAbort
  <2>2. ASSUME NEW a \in Attempts,
               \/ \E op \in Ops : \E arg \in Args(op) : Submit(op, a, arg)
               \/ Revoke(a) \/ Lapse(a) \/ ReapLease(a)
        PROVE  OutcomeStep
    BY <2>2 DEF Submit, Revoke, Lapse, ReapLease
  <2>3. ASSUME NEW c \in calls,
               \/ Heartbeat(c) \/ Checkpoint(c) \/ Replay(c) \/ Fail(c) \/ Drop(c)
        PROVE  OutcomeStep
    BY <2>3 DEF Heartbeat, Checkpoint, Replay, Fail, Drop
  <2>4. ASSUME NEW c \in calls, NEW over \in BOOLEAN, NEW T, Complete(c, over, T)
        PROVE  OutcomeStep
    BY <2>4 DEF Complete, Activate, ActivateAs
  <2>5. ASSUME NEW k \in Keys, ReadOverdue(k) \/ ExpireWait(k) \/ ResolveWait(k)
        PROVE  OutcomeStep
    BY <2>5 DEF ReadOverdue, ExpireWait, ResolveWait
  <2>6. CASE ControlStep
    BY <2>6 DEF ControlStep, Cancel, Pause, Resume
  <2>7. CASE UNCHANGED vars
    BY <2>7 DEF vars
  <2> QED BY <1>1, <2>1, <2>2, <2>3, <2>4, <2>5, <2>6, <2>7
          DEF Next, WorkerStep, ReaperStep
<1> QED BY <1>1, PTL DEF Spec, OutcomeIsFinal

\* In a cancelled Run no Attempt runs: its node would still be RUNNING.
NobodyRuns == run = "CANCELLED" => \A a \in Attempts : aStatus[a] # "RUNNING"

LEMMA CancelledAttempts == ASSUME TypeOK, AttemptInv, CancelFences PROVE NobodyRuns
BY DEF TypeOK, AttemptInv, RunnerHolds, CancelFences, NobodyRuns

\* A step that leaves the status, the rows and the Attempts of a cancelled Run.
LEMMA CancelledStill ==
    ASSUME CancelFences, run' = "CANCELLED" => run = "CANCELLED",
           run = "CANCELLED" => UNCHANGED <<node, ready, wait, aStatus, revoked, lapsed>>
    PROVE  CancelFences'
BY DEF CancelFences, LeaseLive

\* No claim that was open when the Run was cancelled takes work afterwards.
LEMMA ClaimFences ==
    ASSUME TypeOK, NobodyRuns, CancelFences, NEW w \in Workers,
           \/ \E k \in Keys : ClaimSelect(w, k)
           \/ ClaimReserve(w) \/ ClaimOverBudget(w) \/ ClaimReject(w)
           \/ ClaimCommit(w) \/ ClaimAbort(w)
    PROVE  CancelFences'
<1> USE CancelledStill DEF rowVars, attemptVars
<1>k. claim[w].key \in Keys
  BY DEF TypeOK, Claims
<1>1. CASE \E k \in Keys : ClaimSelect(w, k)
  BY <1>1 DEF ClaimSelect
<1>2. CASE ClaimReserve(w)
  BY <1>2 DEF ClaimReserve
<1>3. CASE ClaimOverBudget(w)
  BY <1>3, <1>k DEF ClaimOverBudget, CancelFences
<1>4. CASE ClaimReject(w)
  <2>1. run = "CANCELLED" => UNCHANGED <<node, ready>>
    BY <1>4, <1>k DEF ClaimReject, CancelFences, TypeOK
  <2> QED BY <1>4, <2>1 DEF ClaimReject
<1>5. CASE ClaimCommit(w)
  BY <1>5, <1>k DEF ClaimCommit, CancelFences
<1>6. CASE ClaimAbort(w)
  BY <1>6 DEF ClaimAbort
<1> QED BY <1>1, <1>2, <1>3, <1>4, <1>5, <1>6

\* No call verified before the Run was cancelled does anything afterwards.
LEMMA CallFences ==
    ASSUME TypeOK, NobodyRuns, CancelFences, NEW c \in calls,
           \/ Heartbeat(c) \/ Checkpoint(c) \/ Replay(c) \/ Fail(c) \/ Drop(c)
           \/ \E over \in BOOLEAN, T \in SUBSET Keys : Complete(c, over, T)
    PROVE  CancelFences'
<1> USE CancelledStill DEF rowVars, attemptVars
<1>c. c.att \in Attempts
  BY DEF TypeOK, Calls
<1>1. CASE Heartbeat(c)
  BY <1>1, <1>c DEF Heartbeat, Current, NobodyRuns
<1>2. CASE Checkpoint(c) \/ Replay(c) \/ Drop(c)
  BY <1>2 DEF Checkpoint, Replay, Drop
<1>3. CASE Fail(c)
  <2>1. run # "CANCELLED"
    BY <1>3, <1>c DEF Fail, Current, NobodyRuns
  <2>2. RetryDecision(aKey[c.att], c.arg = "uncertain", fence[aKey[c.att]]) # "CANCELLED"
    BY RetryDecisionType
  <2>3. run' # "CANCELLED"
    BY <1>3, <2>1, <2>2 DEF Fail
  <2> QED BY <2>1, <2>3
<1>4. ASSUME NEW over \in BOOLEAN, NEW T, Complete(c, over, T) PROVE CancelFences'
  <2>1. run # "CANCELLED"
    BY <1>4, <1>c DEF Complete, CompletionLease, LeaseLive, NobodyRuns
  <2>2. run' # "CANCELLED"
    BY <1>4, <2>1 DEF Complete, Activate, ActivateAs
  <2> QED BY <2>1, <2>2
<1> QED BY <1>1, <1>2, <1>3, <1>4

\* Cancelling fences everything, and neither the reaper nor an event undoes it.
LEMMA OtherFences ==
    ASSUME TypeOK, NobodyRuns, CancelFences,
           \/ \E a \in Attempts : \/ Lapse(a) \/ ReapLease(a) \/ Revoke(a)
                                  \/ \E op \in Ops : \E arg \in Args(op) : Submit(op, a, arg)
           \/ \E k \in Keys : ReadOverdue(k) \/ ExpireWait(k) \/ ResolveWait(k)
           \/ ControlStep \/ UNCHANGED vars
    PROVE  CancelFences'
<1> USE CancelledStill DEF rowVars, attemptVars
<1>1. ASSUME NEW a \in Attempts, Lapse(a) \/ ReapLease(a) \/ Revoke(a) PROVE CancelFences'
  <2>1. run # "CANCELLED" /\ run' = run
    BY <1>1 DEF Lapse, ReapLease, Revoke, Overdue, LeaseLive, NobodyRuns
  <2> QED BY <2>1
<1>2. ASSUME NEW a \in Attempts, NEW op, NEW arg, Submit(op, a, arg) PROVE CancelFences'
  BY <1>2 DEF Submit
<1>3. ASSUME NEW k \in Keys, ReadOverdue(k) PROVE CancelFences'
  BY <1>3 DEF ReadOverdue
<1>4. ASSUME NEW k \in Keys, ExpireWait(k) PROVE CancelFences'
  <2>1. run = "CANCELLED" => UNCHANGED <<node, ready, wait>>
    BY <1>4 DEF ExpireWait, Expired, CancelFences, TypeOK
  <2> QED BY <1>4, <2>1 DEF ExpireWait
<1>5. ASSUME NEW k \in Keys, ResolveWait(k) PROVE CancelFences'
  BY <1>5 DEF ResolveWait, CancelFences
<1>6. CASE Cancel
  <2>1. \A k \in Keys : /\ ready'[k] \notin {"READY", "CLAIMED", "WAITING"}
                        /\ wait'[k] # "WAITING"
                        /\ node'[k] \notin {"READY", "RUNNING", "WAITING"}
    BY <1>6 DEF Cancel, Live
  <2>2. \A a \in Attempts : aStatus'[a] # "RUNNING"
    BY <1>6 DEF Cancel
  <2> QED BY <2>1, <2>2 DEF CancelFences, LeaseLive
<1>7. CASE Pause
  BY <1>7 DEF Pause
<1>8. CASE Resume
  BY <1>8 DEF Resume
<1>9. CASE UNCHANGED vars
  BY <1>9 DEF vars
<1> QED BY <1>1, <1>2, <1>3, <1>4, <1>5, <1>6, <1>7, <1>8, <1>9 DEF ControlStep

\* One step of the workers, the reaper and the operators who steer the Run.
LEMMA CancelFencesStep ==
    ASSUME TypeOK, NobodyRuns, CancelFences, [Next]_vars
    PROVE  CancelFences'
<1>1. \A k : Selections(k) \subseteq SUBSET Keys
  BY DEF Selections, Targets
<1> QED BY <1>1, ClaimFences, CallFences, OtherFences DEF Next, WorkerStep, ReaperStep

\* A cancelled Run stays fenced: nothing that was in flight brings work back.
THEOREM CancelIsFinal == Spec => []CancelFences
<1>1. Init => CancelFences
  BY DEF Init, CancelFences
<1>2. TypeOK /\ AttemptInv /\ CancelFences /\ [Next]_vars => CancelFences'
  BY CancelledAttempts, CancelFencesStep
<1> QED BY <1>1, <1>2, AttemptsInStep, PTL DEF Spec

(***************************************************************************)
(* What workers were told.                                                 *)
(***************************************************************************)

\* No two Attempts of a node succeed, and what a worker was told is stored.
OneSuccess ==
    \A a, b \in Attempts :
        aStatus[a] = "SUCCEEDED" /\ aStatus[b] = "SUCCEEDED" /\ aKey[a] = aKey[b] => a = b
Stored ==
    \A x \in acked : /\ aStatus[x[1]] = "SUCCEEDED" /\ digest[x[1]] = x[2]
                     /\ output[aKey[x[1]]] = x[3]

\* A step that commits nothing, tells nobody and overturns no success.
LEMMA StoredStill ==
    ASSUME TypeOK, OneSuccess, Stored, UNCHANGED <<acked, output, digest>>,
           \A a \in Attempts : /\ aStatus[a] = "SUCCEEDED" <=> aStatus'[a] = "SUCCEEDED"
                               /\ aStatus[a] = "SUCCEEDED" => aKey'[a] = aKey[a]
    PROVE  (OneSuccess /\ Stored)'
<1>1. OneSuccess'
  BY DEF OneSuccess
<1>2. Stored'
  <2> SUFFICES ASSUME NEW x \in acked
               PROVE  /\ aStatus'[x[1]] = "SUCCEEDED" /\ digest[x[1]] = x[2]
                      /\ output[aKey'[x[1]]] = x[3]
    BY DEF Stored
  <2>1. x[1] \in Attempts
    BY DEF TypeOK
  <2> QED BY <2>1 DEF Stored
<1> QED BY <1>1, <1>2

\* A completion: the node was RUNNING, so no other Attempt of it succeeded.
LEMMA CompleteStored ==
    ASSUME TypeOK, AttemptInv, OneSuccess, Stored,
           NEW c \in calls, NEW over, NEW T, Complete(c, over, T)
    PROVE  (OneSuccess /\ Stored)'
<1> DEFINE a == c.att
           k == aKey[a]
<1>1. /\ a \in Attempts /\ c.arg \in Digests /\ k \in Keys
      /\ aStatus[a] = "RUNNING" /\ node[k] = "RUNNING" /\ aKey' = aKey
      /\ aStatus' = [aStatus EXCEPT ![a] = "SUCCEEDED"]
      /\ digest' = [digest EXCEPT ![a] = c.arg]
      /\ output' = [output EXCEPT ![k] = seq + 1]
      /\ acked' = acked \cup {<<a, c.arg, seq + 1>>}
  BY DEF Complete, Uncommitted, CompletionLease, LeaseLive, TypeOK, Calls, Args
<1>2. \A b \in Attempts : aStatus[b] = "SUCCEEDED" => b # a /\ aKey[b] # k
  BY <1>1 DEF AttemptInv, SuccessHolds
<1>3. OneSuccess'
  BY <1>1, <1>2 DEF OneSuccess, TypeOK
<1>4. ASSUME NEW x \in acked
      PROVE  aStatus'[x[1]] = "SUCCEEDED" /\ digest'[x[1]] = x[2] /\ output'[aKey[x[1]]] = x[3]
  <2>1. x[1] \in Attempts
    BY DEF TypeOK
  <2>2. aStatus[x[1]] = "SUCCEEDED" /\ digest[x[1]] = x[2] /\ output[aKey[x[1]]] = x[3]
    BY DEF Stored
  <2>3. x[1] # a /\ aKey[x[1]] # k /\ aKey[x[1]] \in Keys
    BY <1>2, <2>1, <2>2 DEF TypeOK
  <2> QED BY <1>1, <2>1, <2>2, <2>3 DEF TypeOK
<1>5. aStatus'[a] = "SUCCEEDED" /\ digest'[a] = c.arg /\ output'[aKey[a]] = seq + 1
  BY <1>1 DEF TypeOK
<1>6. Stored'
  BY <1>1, <1>4, <1>5 DEF Stored
<1> QED BY <1>3, <1>6

\* A completion that was reported is never undone nor answered differently.
THEOREM AcksAreDurable == Spec => []AckIsDurable
<1>1. Init => OneSuccess /\ Stored
  BY DEF Init, OneSuccess, Stored
<1>2. ASSUME TypeOK, AttemptInv, OneSuccess, Stored, [Next]_vars
      PROVE  (OneSuccess /\ Stored)'
  <2> USE <1>2, StoredStill DEF rowVars, attemptVars
  <2>1. ASSUME NEW w \in Workers, ClaimCommit(w) PROVE (OneSuccess /\ Stored)'
    <3>1. aStatus[made + 1] = "NONE" /\ made + 1 \in Attempts
      BY <2>1 DEF ClaimCommit, AttemptInv, Created, TypeOK, Attempts
    <3> QED BY <2>1, <3>1 DEF ClaimCommit, TypeOK
  <2>2. ASSUME NEW w \in Workers,
               \/ \E k \in Keys : ClaimSelect(w, k)
               \/ ClaimReserve(w) \/ ClaimOverBudget(w) \/ ClaimReject(w) \/ ClaimAbort(w)
        PROVE  (OneSuccess /\ Stored)'
    BY <2>2 DEF ClaimSelect, ClaimReserve, ClaimOverBudget, ClaimReject, ClaimAbort
  <2>3. ASSUME NEW a \in Attempts,
               \/ \E op \in Ops : \E arg \in Args(op) : Submit(op, a, arg)
               \/ Revoke(a) \/ Lapse(a)
        PROVE  (OneSuccess /\ Stored)'
    BY <2>3 DEF Submit, Revoke, Lapse
  <2>4. ASSUME NEW a \in Attempts, ReapLease(a) PROVE (OneSuccess /\ Stored)'
    BY <2>4 DEF ReapLease, Overdue, TypeOK
  <2>5. ASSUME NEW c \in calls, Heartbeat(c) \/ Checkpoint(c) \/ Drop(c)
        PROVE  (OneSuccess /\ Stored)'
    BY <2>5 DEF Heartbeat, Checkpoint, Drop
  <2>6. ASSUME NEW c \in calls, Fail(c) PROVE (OneSuccess /\ Stored)'
    BY <2>6 DEF Fail, Current, TypeOK, Calls
  <2>7. ASSUME NEW c \in calls, Replay(c) PROVE (OneSuccess /\ Stored)'
    <3>1. OneSuccess' /\ UNCHANGED <<aStatus, digest, output, aKey>>
      BY <2>7 DEF Replay, OneSuccess
    <3> QED BY <2>7, <3>1 DEF Replay, Stored
  <2>8. ASSUME NEW c \in calls, NEW over, NEW T, Complete(c, over, T)
        PROVE  (OneSuccess /\ Stored)'
    BY <1>2, <2>8, CompleteStored
  <2>9. ASSUME NEW k \in Keys, ReadOverdue(k) \/ ExpireWait(k) \/ ResolveWait(k)
        PROVE  (OneSuccess /\ Stored)'
    BY <2>9 DEF ReadOverdue, ExpireWait, ResolveWait
  <2>10. CASE Cancel
    BY <2>10 DEF Cancel
  <2>11. CASE Pause \/ Resume \/ UNCHANGED vars
    BY <2>11 DEF Pause, Resume, vars
  <2> QED BY <1>2, <2>1, <2>2, <2>3, <2>4, <2>5, <2>6, <2>7, <2>8, <2>9, <2>10, <2>11
          DEF Next, WorkerStep, ReaperStep, ControlStep
<1>3. TypeOK /\ AttemptInv /\ OneSuccess /\ Stored => AckIsDurable
  <2> SUFFICES ASSUME TypeOK, AttemptInv, OneSuccess, Stored, NEW x \in acked, NEW y \in acked
               PROVE  /\ aStatus[x[1]] = "SUCCEEDED" /\ digest[x[1]] = x[2]
                      /\ node[aKey[x[1]]] = "SUCCEEDED" /\ output[aKey[x[1]]] = x[3]
                      /\ aKey[x[1]] = aKey[y[1]] => x = y
    BY DEF AckIsDurable
  <2>1. /\ x[1] \in Attempts /\ y[1] \in Attempts
        /\ x = <<x[1], x[2], x[3]>> /\ y = <<y[1], y[2], y[3]>>
    BY DEF TypeOK
  <2>2. /\ aStatus[x[1]] = "SUCCEEDED" /\ digest[x[1]] = x[2] /\ output[aKey[x[1]]] = x[3]
        /\ aStatus[y[1]] = "SUCCEEDED" /\ digest[y[1]] = y[2] /\ output[aKey[y[1]]] = y[3]
    BY DEF Stored
  <2>3. node[aKey[x[1]]] = "SUCCEEDED"
    BY <2>1, <2>2 DEF AttemptInv, SuccessHolds
  <2>4. aKey[x[1]] = aKey[y[1]] => x[1] = y[1]
    BY <2>1, <2>2 DEF OneSuccess
  <2> QED BY <2>1, <2>2, <2>3, <2>4
<1> QED BY <1>1, <1>2, <1>3, AttemptsInStep, PTL DEF Spec

(***************************************************************************)
(* Waits.                                                                  *)
(***************************************************************************)

\* Whoever puts a node to sleep leaves it where an event or the reaper finds it.
THEOREM SleepersWake == Spec => []SleepersCanWake
<1>1. Init => SleepersCanWake
  BY DEF Init, SleepersCanWake
<1>2. ASSUME TypeOK, SleepersCanWake, [Next]_vars PROVE SleepersCanWake'
  <2> USE <1>2 DEF rowVars, attemptVars, SleepersCanWake
  <2>1. ASSUME NEW w \in Workers,
               \/ ClaimOverBudget(w) \/ ClaimReject(w) \/ ClaimCommit(w)
        PROVE  SleepersCanWake'
    BY <2>1 DEF ClaimOverBudget, ClaimReject, ClaimCommit, TypeOK
  <2>2. ASSUME NEW w \in Workers,
               \/ \E k \in Keys : ClaimSelect(w, k)
               \/ ClaimReserve(w) \/ ClaimAbort(w)
        PROVE  SleepersCanWake'
    BY <2>2 DEF ClaimSelect, ClaimReserve, ClaimAbort
  <2>3. ASSUME NEW a \in Attempts,
               \/ \E op \in Ops : \E arg \in Args(op) : Submit(op, a, arg)
               \/ Revoke(a) \/ Lapse(a)
        PROVE  SleepersCanWake'
    BY <2>3 DEF Submit, Revoke, Lapse
  <2>4. ASSUME NEW a \in Attempts, ReapLease(a) PROVE SleepersCanWake'
    BY <2>4 DEF ReapLease, Requeued, TypeOK
  <2>5. ASSUME NEW c \in calls, Heartbeat(c) \/ Checkpoint(c) \/ Replay(c) \/ Drop(c)
        PROVE  SleepersCanWake'
    BY <2>5 DEF Heartbeat, Checkpoint, Replay, Drop
  <2>6. ASSUME NEW c \in calls, Fail(c) PROVE SleepersCanWake'
    <3>1. RetryDecision(aKey[c.att], c.arg = "uncertain", fence[aKey[c.att]]) # "WAITING"
      BY RetryDecisionType
    <3> QED BY <2>6, <3>1 DEF Fail, TypeOK, Calls
  <2>7. ASSUME NEW c \in calls, NEW over, NEW T, Complete(c, over, T)
        PROVE  SleepersCanWake'
    <3>1. aKey[c.att] \in Keys
      BY DEF TypeOK, Calls
    <3>2. CASE Activate(aKey[c.att], T)
      BY <2>7, <3>1, <3>2 DEF Activate, ActivateAs, Fresh, TypeOK
    <3>3. CASE UNCHANGED <<wait, join, inputs>> /\ ~Activate(aKey[c.att], T)
      BY <2>7, <3>1, <3>3 DEF Complete, TypeOK
    <3> QED BY <2>7, <3>2, <3>3 DEF Complete
  <2>8. ASSUME NEW k \in Keys, ReadOverdue(k) \/ ExpireWait(k) \/ ResolveWait(k)
        PROVE  SleepersCanWake'
    BY <2>8 DEF ReadOverdue, ExpireWait, ResolveWait, Expired, TypeOK
  <2>9. CASE Cancel \/ Pause \/ Resume \/ UNCHANGED vars
    BY <2>9 DEF Cancel, Pause, Resume, vars, TypeOK
  <2> QED BY <2>1, <2>2, <2>3, <2>4, <2>5, <2>6, <2>7, <2>8, <2>9
          DEF Next, WorkerStep, ReaperStep, ControlStep
<1> QED BY <1>1, <1>2, TypeCorrect, PTL DEF Spec

(***************************************************************************)
(* The Attempts implement the fenced lease.                                *)
(***************************************************************************)

\* A node whose Attempts, tokens and results are left alone rests.
LEMMA LeaseRests ==
    ASSUME NEW k \in Keys, fence'[k] = fence[k],
           \A a \in Attempts : /\ aKey'[a] = k <=> aKey[a] = k
                               /\ aKey[a] = k => /\ aFence'[a] = aFence[a]
                                                 /\ aStatus'[a] = aStatus[a]
    PROVE  Lease!Rest(k)
<1>1. Running(k)' = Running(k)
  BY DEF Running
<1>2. Winners(k)' = Winners(k)
  BY DEF Winners
<1> QED BY <1>1, <1>2 DEF Lease!Rest

\* Ending an Attempt that runs loses its grant or commits the work.
LEMMA LeaseEnds ==
    ASSUME TypeOK, AttemptInv, UNCHANGED <<aKey, aFence, fence>>,
           NEW a \in Attempts, aStatus[a] = "RUNNING",
           NEW f \in {"SUCCEEDED", "FAILED", "STALE"},
           aStatus' = [aStatus EXCEPT ![a] = f]
    PROVE  Lease!Next
<1>1. \A b \in Attempts : aStatus'[b] = IF b = a THEN f ELSE aStatus[b]
  BY DEF TypeOK
<1>2. fence' \in [Keys -> Nat]
  BY DEF TypeOK
<1>3. ASSUME NEW k \in Keys, k # aKey[a] PROVE Lease!Rest(k)
  BY <1>1, <1>3, LeaseRests
<1>4. ASSUME NEW k \in Keys, k = aKey[a] PROVE Lease!Lose(k) \/ Lease!Commit(k)
  <2>1. Running(k) /\ ~Running(k)'
    BY <1>1, <1>4, SoleRunner DEF Running
  <2>2. CASE f = "SUCCEEDED"
    <3>1. Winners(k) = {}
      BY <1>4 DEF Winners, AttemptInv, RunnerHolds, SuccessHolds
    <3>2. aFence[a] = fence[k]
      BY <1>4 DEF AttemptInv, RunnerHolds
    <3>3. Winners(k)' = {fence[k]}
      BY <1>1, <1>4, <2>2, <3>1, <3>2 DEF Winners
    <3> QED BY <2>1, <3>1, <3>3 DEF Lease!Commit
  <2>3. CASE f # "SUCCEEDED"
    <3>1. Winners(k)' = Winners(k)
      BY <1>1, <2>3 DEF Winners
    <3>2. fence'[k] >= fence[k]
      BY DEF TypeOK
    <3> QED BY <2>1, <3>1, <3>2 DEF Lease!Lose
  <2> QED BY <2>2, <2>3
<1> QED BY <1>2, <1>3, <1>4 DEF Lease!Next

\* A new Attempt is a grant under a larger token.
LEMMA LeaseGrants ==
    ASSUME TypeOK, AttemptInv, NEW w \in Workers, ClaimCommit(w)
    PROVE  Lease!Next
<1>0. claim[w].key \in Keys /\ made + 1 \in Attempts
  BY DEF ClaimCommit, TypeOK, Claims
<1> SUFFICES ASSUME NEW k \in Keys, k = claim[w].key,
                    NEW n \in Attempts, n = made + 1
             PROVE  Lease!Next
  BY <1>0
<1>1. made \in Nat /\ node[k] = "READY" /\ fence \in [Keys -> Nat]
  BY DEF ClaimCommit, TypeOK
<1>2. /\ \A a \in Attempts : /\ aKey'[a] = IF a = n THEN k ELSE aKey[a]
                             /\ aStatus'[a] = IF a = n THEN "RUNNING" ELSE aStatus[a]
                             /\ aFence'[a] = IF a = n THEN fence[k] + 1 ELSE aFence[a]
      /\ fence' = [fence EXCEPT ![k] = fence[k] + 1]
  BY <1>1 DEF ClaimCommit, NextFence, TypeOK
<1>3. aStatus[n] = "NONE"
  BY <1>1 DEF AttemptInv, Created, Attempts
<1>4. \A a \in Attempts : aKey[a] = k => aStatus[a] # "SUCCEEDED" /\ aStatus[a] # "RUNNING"
  BY <1>1 DEF AttemptInv, RunnerHolds, SuccessHolds
<1>5. fence' \in [Keys -> Nat]
  BY <1>1, <1>2
<1>6. Lease!Grant(k)
  <2>1. Winners(k) = {} /\ Winners(k)' = {}
    BY <1>2, <1>4 DEF Winners
  <2>2. Running(k)'
    BY <1>1, <1>2 DEF Running
  <2>3. fence'[k] > fence[k]
    BY <1>1, <1>2
  <2> QED BY <1>1, <2>1, <2>2, <2>3 DEF Lease!Grant
<1>7. ASSUME NEW j \in Keys, j # k PROVE Lease!Rest(j)
  <2>1. Running(j)' = Running(j)
    BY <1>2, <1>3, <1>7 DEF Running
  <2>2. Winners(j)' = Winners(j)
    BY <1>2, <1>3, <1>7 DEF Winners
  <2> QED BY <1>1, <1>2, <1>7, <2>1, <2>2 DEF Lease!Rest
<1> QED BY <1>5, <1>6, <1>7 DEF Lease!Next

\* Cancelling the Run loses every grant that is held, and no result.
LEMMA LeaseCancels == ASSUME TypeOK, Cancel PROVE Lease!Next
<1>1. /\ UNCHANGED <<aKey, aFence, fence>> /\ fence' \in [Keys -> Nat]
      /\ \A a \in Attempts : aStatus'[a] = IF aStatus[a] = "RUNNING" THEN "CANCELLED"
                                           ELSE aStatus[a]
  BY DEF Cancel, TypeOK
<1>2. ASSUME NEW k \in Keys PROVE Lease!Lose(k) \/ Lease!Rest(k)
  <2>1. ~Running(k)'
    BY <1>1 DEF Running
  <2>2. Winners(k)' = Winners(k)
    BY <1>1 DEF Winners
  <2>3. CASE Running(k)
    BY <1>1, <2>1, <2>2, <2>3 DEF Lease!Lose
  <2>4. CASE ~Running(k)
    <3>1. Running(k)' = Running(k)
      BY <2>1, <2>4 DEF Running
    <3> QED BY <1>1, <2>2, <3>1 DEF Lease!Rest
  <2> QED BY <2>3, <2>4
<1> QED BY <1>1, <1>2 DEF Lease!Next

\* Every other step leaves the leases as they are.
LEMMA LeaseUntouched ==
    ASSUME UNCHANGED <<fence, aKey, aStatus, aFence>>
    PROVE  UNCHANGED Lease!vars
<1>1. ASSUME NEW k \in Keys PROVE Running(k)' = Running(k) /\ Winners(k)' = Winners(k)
  BY DEF Running, Winners
<1> QED BY <1>1 DEF Lease!vars

\* The Attempts of every Node Run behave as the grants of a fenced lease: the
\* tokens of claim_ready grow, and complete_attempt commits a result only for
\* the Attempt that holds the latest of them, once.
THEOREM AttemptsImplementLease == Spec => AttemptsAreFenced
<1>1. Init => Lease!Init
  <2> SUFFICES ASSUME Init PROVE Lease!Init
    OBVIOUS
  <2>1. \A k \in Keys : ~Running(k) /\ Winners(k) = {}
    BY DEF Init, Running, Winners
  <2>2. \A k \in Keys : Running(k) = FALSE
    BY <2>1 DEF Running
  <2>3. fence \in [Keys -> Nat]
    BY DEF Init
  <2> QED BY <2>1, <2>2, <2>3 DEF Lease!Init
<1>2. ASSUME TypeOK, AttemptInv, [Next]_vars PROVE [Lease!Next]_(Lease!vars)
  <2> USE <1>2 DEF rowVars, attemptVars
  <2>1. ASSUME NEW w \in Workers,
               \/ \E k \in Keys : ClaimSelect(w, k)
               \/ ClaimReserve(w) \/ ClaimOverBudget(w) \/ ClaimReject(w) \/ ClaimAbort(w)
        PROVE  UNCHANGED Lease!vars
    BY <2>1, LeaseUntouched
       DEF ClaimSelect, ClaimReserve, ClaimOverBudget, ClaimReject, ClaimAbort
  <2>2. ASSUME NEW w \in Workers, ClaimCommit(w) PROVE Lease!Next
    BY <2>2, LeaseGrants
  <2>3. ASSUME NEW a \in Attempts,
               \/ \E op \in Ops : \E arg \in Args(op) : Submit(op, a, arg)
               \/ Revoke(a) \/ Lapse(a)
        PROVE  UNCHANGED Lease!vars
    BY <2>3, LeaseUntouched DEF Submit, Revoke, Lapse
  <2>4. ASSUME NEW a \in Attempts, ReapLease(a) PROVE Lease!Next
    BY <2>4, LeaseEnds DEF ReapLease, Overdue
  <2>5. ASSUME NEW c \in calls, Heartbeat(c) \/ Checkpoint(c) \/ Replay(c) \/ Drop(c)
        PROVE  UNCHANGED Lease!vars
    BY <2>5, LeaseUntouched DEF Heartbeat, Checkpoint, Replay, Drop
  <2>6. ASSUME NEW c \in calls, Fail(c) PROVE Lease!Next
    <3>1. c.att \in Attempts /\ aStatus[c.att] = "RUNNING"
      BY <2>6 DEF TypeOK, Calls, Fail, Current
    <3> QED BY <2>6, <3>1, LeaseEnds DEF Fail
  <2>7. ASSUME NEW c \in calls, NEW over, NEW T, Complete(c, over, T) PROVE Lease!Next
    <3>1. c.att \in Attempts /\ aStatus[c.att] = "RUNNING"
      BY <2>7 DEF TypeOK, Calls, Complete, CompletionLease, LeaseLive
    <3>2. /\ UNCHANGED <<aKey, aFence, fence>>
          /\ aStatus' = [aStatus EXCEPT ![c.att] = "SUCCEEDED"]
      BY <2>7 DEF Complete
    <3> QED BY <3>1, <3>2, LeaseEnds
  <2>8. ASSUME NEW k \in Keys, ReadOverdue(k) \/ ExpireWait(k) \/ ResolveWait(k)
        PROVE  UNCHANGED Lease!vars
    BY <2>8, LeaseUntouched DEF ReadOverdue, ExpireWait, ResolveWait
  <2>9. CASE Cancel
    BY <2>9, LeaseCancels
  <2>10. CASE Pause \/ Resume \/ UNCHANGED vars
    BY <2>10, LeaseUntouched DEF Pause, Resume, vars
  <2> QED BY <2>1, <2>2, <2>3, <2>4, <2>5, <2>6, <2>7, <2>8, <2>9, <2>10
          DEF Next, WorkerStep, ReaperStep, ControlStep
<1> QED BY <1>1, <1>2, AttemptsInStep, PTL DEF Spec, AttemptsAreFenced, Lease!Spec

(***************************************************************************)
(* What a transaction does to the rows of the nodes.  A node that has a    *)
(* row keeps it, and a claim that is about to commit has the only lock of  *)
(* a row that is READY.  Then every transaction but two kinds is quiet: it *)
(* opens no node, touches no join and nothing that is at its end.  The     *)
(* others activate the targets of one node.                                *)
(***************************************************************************)
RowsHaveNodes ==
    /\ \A k \in Keys : node[k] = "NONE" => /\ ready[k] = "NONE" /\ wait[k] = "NONE"
                                           /\ join[k] # "COMMITTED"
    /\ \A a \in Attempts : aStatus[a] = "RUNNING" => node[aKey[a]] # "NONE"

LockHolds ==
    /\ \A w \in Workers : claim[w].stage = "reserved" => ready[claim[w].key] = "READY"
    /\ \A v, w \in Workers :
          claim[v].stage = "reserved" /\ claim[w].stage = "reserved"
             /\ claim[v].key = claim[w].key => v = w

Quiet ==
    /\ UNCHANGED <<join, inputs>>
    /\ \A k \in Keys : /\ node'[k] = "NONE" <=> node[k] = "NONE"
                       /\ ready[k] \notin Live => ready'[k] = ready[k]
                       /\ wait[k] # "WAITING" => wait'[k] = wait[k]

Activates(k, T, ended, row) ==
    /\ k \in Keys /\ T \in SUBSET Targets(k) /\ node[k] # "NONE"
    /\ ended \in {"SUCCEEDED", "SKIPPED"}
    /\ row \in ReadyStatus /\ (ready[k] \notin Live => row = ready[k])
    /\ ActivateAs(k, T, ended, row)

\* The statements of claim_ready are quiet.
LEMMA ClaimQuiet ==
    ASSUME TypeOK, LockHolds, NEW w \in Workers,
           \/ \E k \in Keys : ClaimSelect(w, k)
           \/ ClaimReserve(w) \/ ClaimOverBudget(w) \/ ClaimReject(w)
           \/ ClaimCommit(w) \/ ClaimAbort(w)
    PROVE  Quiet
<1> USE DEF rowVars, attemptVars, Quiet, Live
<1>0. claim[w].key \in Keys
  BY DEF TypeOK, Claims
<1>1. ASSUME NEW k \in Keys, ClaimSelect(w, k) PROVE Quiet
  BY <1>1 DEF ClaimSelect
<1>2. CASE ClaimReserve(w) \/ ClaimAbort(w)  BY <1>2 DEF ClaimReserve, ClaimAbort
<1>3. CASE ClaimOverBudget(w)  BY <1>0, <1>3 DEF ClaimOverBudget, TypeOK
<1>4. CASE ClaimReject(w)  BY <1>0, <1>4 DEF ClaimReject, TypeOK
<1>5. CASE ClaimCommit(w)  BY <1>0, <1>5 DEF ClaimCommit, TypeOK, LockHolds
<1> QED BY <1>1, <1>2, <1>3, <1>4, <1>5

\* A completion activates what follows, or the Run is not going on.
Going == {"RUNNING", "WAITING"}

LEMMA CompleteKinds ==
    ASSUME TypeOK, NEW c \in calls, NEW over, NEW T \in Selections(aKey[c.att]), Complete(c, over, T)
    PROVE  \/ Quiet /\ run' \notin Going
           \/ Activates(aKey[c.att], T, "SUCCEEDED", Consumed(aKey[c.att]))
<1>0. /\ c.att \in Attempts /\ aKey[c.att] \in Keys /\ ready[aKey[c.att]] \in ReadyStatus
      /\ node[aKey[c.att]] = "RUNNING"
  BY DEF TypeOK, Calls, Complete, Uncommitted
<1>1. CASE Activate(aKey[c.att], T)
  <2>1. /\ Consumed(aKey[c.att]) \in ReadyStatus
        /\ ready[aKey[c.att]] \notin Live => Consumed(aKey[c.att]) = ready[aKey[c.att]]
    BY <1>0 DEF Consumed, Live
  <2>2. T \in SUBSET Targets(aKey[c.att])
    BY DEF Selections
  <2> QED BY <1>0, <1>1, <2>1, <2>2 DEF Activates, Activate
<1>2. CASE ~Activate(aKey[c.att], T)
  <2>1. /\ over \/ run \in {"CANCELLED", "PAUSED", "REVIEW_REQUIRED"}
        /\ node' = [node EXCEPT ![aKey[c.att]] = "SUCCEEDED"]
        /\ ready' = [ready EXCEPT ![aKey[c.att]] = Consumed(aKey[c.att])]
        /\ run' = IF over /\ run \notin Terminal THEN "REVIEW_REQUIRED" ELSE run
        /\ UNCHANGED <<wait, join, inputs>>
    BY <1>2 DEF Complete
  <2>2. Quiet
    BY <1>0, <2>1 DEF Quiet, Consumed, TypeOK, Live
  <2>3. run' \notin Going
    BY <2>1 DEF Going, Terminal
  <2> QED BY <2>2, <2>3
<1> QED BY <1>1, <1>2

\* A worker call is quiet, unless it completes an Attempt and activates what follows.
LEMMA CallQuiet ==
    ASSUME TypeOK, RowsHaveNodes, NEW c \in calls,
           \/ Heartbeat(c) \/ Checkpoint(c) \/ Replay(c) \/ Fail(c) \/ Drop(c)
           \/ \E over \in BOOLEAN, T \in Selections(aKey[c.att]) : Complete(c, over, T)
    PROVE  \/ Quiet
           \/ \E k \in Keys : \E T \in Selections(k) : \E row : Activates(k, T, "SUCCEEDED", row)
<1> USE DEF rowVars, attemptVars
<1>0. c.att \in Attempts /\ aKey[c.att] \in Keys
  BY DEF TypeOK, Calls
<1>1. CASE Heartbeat(c) \/ Checkpoint(c) \/ Replay(c) \/ Drop(c)
  BY <1>1 DEF Heartbeat, Checkpoint, Replay, Drop, Quiet
<1>2. CASE Fail(c)
  <2> DEFINE decision == RetryDecision(aKey[c.att], c.arg = "uncertain", fence[aKey[c.att]])
  <2>0. decision # "NONE"
    BY RetryDecisionType
  <2>1. /\ node' = [node EXCEPT ![aKey[c.att]] = decision]
        /\ UNCHANGED <<wait, join, inputs>>
        /\ \A k \in Keys : ready[k] \notin Live => ready'[k] = ready[k]
    <3> HIDE DEF decision
    <3>1. /\ node' = [node EXCEPT ![aKey[c.att]] = decision]
          /\ ready' = [ready EXCEPT ![aKey[c.att]] =
                          IF decision = "READY" /\ @ \in {"CLAIMED", "WAITING"} THEN "READY" ELSE @]
          /\ UNCHANGED <<wait, join, inputs>>
      BY <1>2 DEF Fail, decision
    <3>2. ready \in [Keys -> ReadyStatus]
      BY DEF TypeOK
    <3> QED BY <3>1, <3>2 DEF Live
  <2>2. node[aKey[c.att]] # "NONE"
    BY <1>0, <1>2 DEF Fail, Current, RowsHaveNodes
  <2>3. node \in [Keys -> NodeStatus]
    BY DEF TypeOK
  <2> HIDE DEF decision
  <2> QED BY <2>0, <2>1, <2>2, <2>3 DEF Quiet
<1>3. ASSUME NEW over \in BOOLEAN, NEW T \in Selections(aKey[c.att]), Complete(c, over, T)
      PROVE  \/ Quiet
             \/ \E k \in Keys : \E U \in Selections(k) : \E row : Activates(k, U, "SUCCEEDED", row)
  BY <1>0, <1>3, CompleteKinds
<1> QED BY <1>1, <1>2, <1>3

\* The reaper, the waits and the run controls are quiet.
LEMMA OtherQuiet ==
    ASSUME TypeOK,
           \/ \E a \in Attempts : \/ \E op \in Ops : \E arg \in Args(op) : Submit(op, a, arg)
                                  \/ Revoke(a) \/ Lapse(a) \/ ReapLease(a)
           \/ \E k \in Keys : ReadOverdue(k) \/ ExpireWait(k) \/ ResolveWait(k)
           \/ ControlStep
           \/ UNCHANGED vars
    PROVE  Quiet
<1> USE DEF rowVars, attemptVars, Quiet, Live
<1>1. ASSUME NEW a \in Attempts, NEW op, NEW arg, Submit(op, a, arg) PROVE Quiet
  BY <1>1 DEF Submit
<1>2. ASSUME NEW a \in Attempts, Revoke(a) \/ Lapse(a) PROVE Quiet
  BY <1>2 DEF Revoke, Lapse
<1>3. ASSUME NEW a \in Attempts, ReapLease(a) PROVE Quiet
  BY <1>3 DEF ReapLease, Requeued, TypeOK
<1>4. ASSUME NEW k \in Keys, ReadOverdue(k) PROVE Quiet  BY <1>4 DEF ReadOverdue
<1>5. ASSUME NEW k \in Keys, ExpireWait(k) PROVE Quiet
  BY <1>5 DEF ExpireWait, Expired, TypeOK
<1>6. ASSUME NEW k \in Keys, ResolveWait(k) PROVE Quiet  BY <1>6 DEF ResolveWait, TypeOK
<1>7. CASE Cancel  BY <1>7 DEF Cancel, TypeOK
<1>8. CASE Pause  BY <1>8 DEF Pause, TypeOK
<1>9. CASE Resume  BY <1>9 DEF Resume, TypeOK
<1>10. CASE UNCHANGED vars  BY <1>10 DEF vars
<1> QED BY <1>1, <1>2, <1>3, <1>4, <1>5, <1>6, <1>7, <1>8, <1>9, <1>10 DEF ControlStep

\* Every transaction is of one of the two kinds.
LEMMA QuietOrActivates ==
    ASSUME TypeOK, RowsHaveNodes, LockHolds, [Next]_vars
    PROVE  \/ Quiet
           \/ \E k \in Keys : \E T \in Selections(k) : \E row : Activates(k, T, "SUCCEEDED", row)
BY ClaimQuiet, CallQuiet, OtherQuiet DEF Next, WorkerStep, ReaperStep

\* What an activation leaves alone, opens and collects.
LEMMA ActivationRows ==
    ASSUME TypeOK, RowsHaveNodes, NEW k, NEW T, NEW ended, NEW row, Activates(k, T, ended, row)
    PROVE  \A t \in Keys :
              /\ node[t] # "NONE" => node'[t] # "NONE" /\ wait'[t] = wait[t]
              /\ node[t] # "NONE" /\ t # k => node'[t] = node[t]
              /\ ready[t] \notin Live /\ node[t] # "NONE" => ready'[t] = ready[t]
              /\ join[t] = "COMMITTED" => join'[t] = "COMMITTED" /\ inputs'[t] = inputs[t]
              /\ node'[t] = "NONE" => /\ t \notin Opened(k, T) /\ join'[t] # "COMMITTED"
                                      /\ ready'[t] = "NONE" /\ wait'[t] = "NONE"
<1>1. \A t \in T : t \in Opened(k, T) /\ node[t] = "NONE" => t \in Fresh(k, T)
  BY DEF Activates, Fresh, RowsHaveNodes, Live, Targets
<1>2. \A t \in Fresh(k, T) : node[t] = "NONE" /\ t \in Keys /\ t # k
  BY DEF Activates, ActivateAs, Insertable, Fresh, Opened, Targets
<1>3. k \in Keys /\ ended # "NONE" /\ node[k] # "NONE" /\ Opened(k, T) \subseteq T
  BY DEF Activates, Opened
<1> QED BY <1>1, <1>2, <1>3 DEF Activates, ActivateAs, RowsHaveNodes, TypeOK

\* An Attempt that runs after a step ran before it, or has just been claimed.
RunnersKept ==
    \A a \in Attempts : aStatus'[a] = "RUNNING" =>
        \/ aStatus[a] = "RUNNING" /\ aKey'[a] = aKey[a]
        \/ aKey'[a] \in Keys /\ node'[aKey'[a]] = "RUNNING"

LEMMA RunnersStay == ASSUME TypeOK, [Next]_vars PROVE RunnersKept
<1> USE DEF rowVars, attemptVars, RunnersKept
<1>1. ASSUME NEW w \in Workers,
             \/ \E k \in Keys : ClaimSelect(w, k)
             \/ ClaimReserve(w) \/ ClaimOverBudget(w) \/ ClaimReject(w) \/ ClaimAbort(w)
      PROVE  RunnersKept
  BY <1>1 DEF ClaimSelect, ClaimReserve, ClaimOverBudget, ClaimReject, ClaimAbort
<1>2. ASSUME NEW w \in Workers, ClaimCommit(w) PROVE RunnersKept
  <2>1. claim[w].key \in Keys
    BY DEF TypeOK, Claims
  <2> QED BY <1>2, <2>1 DEF ClaimCommit, TypeOK
<1>3. ASSUME NEW a \in Attempts,
             \/ \E op \in Ops : \E arg \in Args(op) : Submit(op, a, arg)
             \/ Revoke(a) \/ Lapse(a)
      PROVE  RunnersKept
  BY <1>3 DEF Submit, Revoke, Lapse
<1>4. ASSUME NEW a \in Attempts, ReapLease(a) PROVE RunnersKept
  BY <1>4 DEF ReapLease, TypeOK
<1>5. ASSUME NEW c \in calls, Heartbeat(c) \/ Checkpoint(c) \/ Replay(c) \/ Drop(c)
      PROVE  RunnersKept
  BY <1>5 DEF Heartbeat, Checkpoint, Replay, Drop
<1>6. ASSUME NEW c \in calls, Fail(c) PROVE RunnersKept
  <2>1. aKey' = aKey /\ aStatus' = [aStatus EXCEPT ![c.att] = "FAILED"]
    BY <1>6 DEF Fail
  <2> QED BY <2>1 DEF TypeOK
<1>7. ASSUME NEW c \in calls, NEW over, NEW T, Complete(c, over, T) PROVE RunnersKept
  <2>1. aKey' = aKey /\ aStatus' = [aStatus EXCEPT ![c.att] = "SUCCEEDED"]
    BY <1>7 DEF Complete
  <2> QED BY <2>1 DEF TypeOK
<1>8. ASSUME NEW k \in Keys, ReadOverdue(k) \/ ExpireWait(k) \/ ResolveWait(k)
      PROVE  RunnersKept
  BY <1>8 DEF ReadOverdue, ExpireWait, ResolveWait
<1>9. CASE Cancel  BY <1>9 DEF Cancel, TypeOK
<1>10. CASE Pause \/ Resume \/ UNCHANGED vars  BY <1>10 DEF Pause, Resume, vars
<1> QED BY <1>1, <1>2, <1>3, <1>4, <1>5, <1>6, <1>7, <1>8, <1>9, <1>10
        DEF Next, WorkerStep, ReaperStep, ControlStep

\* Both kinds of transactions keep the rows of a node together.
LEMMA RowsStep ==
    ASSUME TypeOK, RowsHaveNodes, RunnersKept,
           \/ Quiet
           \/ \E k, T, ended, row : Activates(k, T, ended, row)
    PROVE  RowsHaveNodes'
<1>1. \A k \in Keys : node[k] # "NONE" => node'[k] # "NONE"
  <2>1. CASE Quiet  BY <2>1 DEF Quiet
  <2>2. ASSUME NEW k, NEW T, NEW ended, NEW row, Activates(k, T, ended, row)
        PROVE  \A t \in Keys : node[t] # "NONE" => node'[t] # "NONE"
    BY <2>2, ActivationRows
  <2> QED BY <2>1, <2>2
<1>2. \A k \in Keys : node'[k] = "NONE" => /\ ready'[k] = "NONE" /\ wait'[k] = "NONE"
                                           /\ join'[k] # "COMMITTED"
  <2>1. CASE Quiet  BY <2>1 DEF Quiet, RowsHaveNodes, Live
  <2>2. ASSUME NEW k, NEW T, NEW ended, NEW row, Activates(k, T, ended, row)
        PROVE  \A t \in Keys : node'[t] = "NONE" => /\ ready'[t] = "NONE" /\ wait'[t] = "NONE"
                                                    /\ join'[t] # "COMMITTED"
    BY <2>2, ActivationRows
  <2> QED BY <2>1, <2>2
<1>3. ASSUME NEW a \in Attempts, aStatus'[a] = "RUNNING" PROVE node'[aKey'[a]] # "NONE"
  <2>1. aKey[a] \in Keys
    BY DEF TypeOK
  <2>2. aStatus[a] = "RUNNING" => node[aKey[a]] # "NONE"
    BY DEF RowsHaveNodes
  <2> QED BY <1>1, <1>3, <2>1, <2>2 DEF RunnersKept
<1> QED BY <1>2, <1>3 DEF RowsHaveNodes

\* A step that takes no lock and leaves the rows that are locked READY.
LEMMA LockRests ==
    ASSUME TypeOK, LockHolds,
           \A w \in Workers : claim'[w].stage = "reserved" => claim'[w] = claim[w],
           \A k \in Keys : ready[k] = "READY" /\ ~Unlocked(k) => \/ ready'[k] = "READY"
                                                                 \/ Unlocked(k)'
    PROVE  LockHolds'
<1>1. \A w \in Workers : claim[w].key \in Keys
  BY DEF TypeOK, Claims
<1>2. ASSUME NEW w \in Workers, claim'[w].stage = "reserved" PROVE ready'[claim'[w].key] = "READY"
  <2>1. claim[w].stage = "reserved" /\ claim'[w].key = claim[w].key
    BY <1>2
  <2>2. ready[claim[w].key] = "READY" /\ ~Unlocked(claim[w].key) /\ ~Unlocked(claim[w].key)'
    BY <1>2, <2>1 DEF LockHolds, Unlocked
  <2> QED BY <1>1, <2>1, <2>2
<1> QED BY <1>2 DEF LockHolds

\* Every step of GraphRuntime keeps the locks of the claims.
LEMMA LockStep == ASSUME TypeOK, LockHolds, [Next]_vars PROVE LockHolds'
<1> USE DEF rowVars, attemptVars
<1>1. ASSUME NEW w \in Workers, (\E k \in Keys : ClaimSelect(w, k)) \/ ClaimAbort(w)
      PROVE  LockHolds'
  <2>1. \A v \in Workers : claim'[v].stage = "reserved" => claim'[v] = claim[v]
    BY <1>1 DEF ClaimSelect, ClaimAbort, TypeOK, Idle
  <2>2. ready' = ready
    BY <1>1 DEF ClaimSelect, ClaimAbort
  <2> QED BY <2>1, <2>2, LockRests
<1>2. ASSUME NEW w \in Workers, ClaimReserve(w) PROVE LockHolds'
  <2>1. /\ ready' = ready /\ Unlocked(claim[w].key)
        /\ \A v \in Workers \ {w} : claim'[v] = claim[v]
        /\ claim'[w].stage = "reserved" =>
              ready[claim[w].key] = "READY" /\ claim'[w].key = claim[w].key
    BY <1>2 DEF ClaimReserve, TypeOK, Idle
  <2> QED BY <2>1 DEF LockHolds, Unlocked
<1>3. ASSUME NEW w \in Workers, ClaimOverBudget(w) \/ ClaimReject(w) PROVE LockHolds'
  <2>1. /\ Unlocked(claim[w].key)
        /\ \A k \in Keys : k # claim[w].key => ready'[k] = ready[k]
        /\ \A v \in Workers : claim'[v].stage = "reserved" => claim'[v] = claim[v]
    BY <1>3 DEF ClaimOverBudget, ClaimReject, TypeOK, Idle
  <2> QED BY <2>1, LockRests
<1>4. ASSUME NEW w \in Workers, ClaimCommit(w) PROVE LockHolds'
  <2>0. PICK k \in Keys : k = claim[w].key
    BY DEF TypeOK, Claims
  <2>1. /\ claim[w].stage = "reserved"
        /\ \A j \in Keys : j # k => ready'[j] = ready[j]
        /\ \A v \in Workers : claim'[v].stage = "reserved" => claim'[v] = claim[v] /\ v # w
    BY <1>4, <2>0 DEF ClaimCommit, TypeOK, Idle
  <2>2. Unlocked(k)'
    BY <2>0, <2>1 DEF LockHolds, Unlocked
  <2> QED BY <2>1, <2>2, LockRests
<1>5. ASSUME NEW a \in Attempts,
             \/ \E op \in Ops : \E arg \in Args(op) : Submit(op, a, arg)
             \/ Revoke(a) \/ Lapse(a) \/ ReapLease(a)
      PROVE  LockHolds'
  <2>1. claim' = claim /\ \A k \in Keys : ready[k] = "READY" => ready'[k] = "READY"
    BY <1>5 DEF Submit, Revoke, Lapse, ReapLease, Requeued, TypeOK
  <2> QED BY <2>1, LockRests
<1>6. ASSUME NEW c \in calls, Heartbeat(c) \/ Checkpoint(c) \/ Replay(c) \/ Drop(c) PROVE LockHolds'
  <2>1. claim' = claim /\ ready' = ready
    BY <1>6 DEF Heartbeat, Checkpoint, Replay, Drop
  <2> QED BY <2>1, LockRests
<1>7. ASSUME NEW c \in calls, Fail(c) PROVE LockHolds'
  <2> DEFINE decision == RetryDecision(aKey[c.att], c.arg = "uncertain", fence[aKey[c.att]])
  <2>1. /\ claim' = claim
        /\ ready' = [ready EXCEPT ![aKey[c.att]] =
                       IF decision = "READY" /\ @ \in {"CLAIMED", "WAITING"} THEN "READY" ELSE @]
    BY <1>7 DEF Fail
  <2> HIDE DEF decision
  <2>2. \A k \in Keys : ready[k] = "READY" => ready'[k] = "READY"
    BY <2>1 DEF TypeOK
  <2> QED BY <2>1, <2>2, LockRests
<1>8. ASSUME NEW c \in calls, NEW over, NEW T, Complete(c, over, T) PROVE LockHolds'
  <2>1. claim' = claim
    BY <1>8 DEF Complete
  <2>2. \A k \in Keys : ready[k] = "READY" => ready'[k] = "READY"
    BY <1>8, CompleteRows DEF Live, Consumed
  <2> QED BY <2>1, <2>2, LockRests
<1>9. ASSUME NEW k \in Keys, ReadOverdue(k) \/ ExpireWait(k) \/ ResolveWait(k) PROVE LockHolds'
  <2>1. claim' = claim /\ \A j \in Keys : ready[j] = "READY" => ready'[j] = "READY"
    BY <1>9 DEF ReadOverdue, ExpireWait, ResolveWait, TypeOK
  <2> QED BY <2>1, LockRests
<1>10. CASE Cancel \/ Pause
  <2>1. claim' = claim /\ \A k \in Keys : Unlocked(k)
    BY <1>10 DEF Cancel, Pause
  <2> QED BY <2>1, LockRests
<1>11. CASE Resume \/ UNCHANGED vars
  <2>1. claim' = claim /\ \A k \in Keys : ready[k] = "READY" => ready'[k] = "READY"
    BY <1>11 DEF Resume, vars, TypeOK
  <2> QED BY <2>1, LockRests
<1> QED BY <1>1, <1>2, <1>3, <1>4, <1>5, <1>6, <1>7, <1>8, <1>9, <1>10, <1>11
        DEF Next, WorkerStep, ReaperStep, ControlStep

\* A Run as create_run leaves it.
LEMMA RowsInitially == Init => RowsHaveNodes /\ LockHolds
BY DEF Init, RowsHaveNodes, LockHolds, Idle

\* A node's rows exist only with its Node Run, and the claims that are about to
\* commit hold the only locks of rows that are READY.
THEOREM RowsInOrder == Spec => [](TypeOK /\ RowsHaveNodes /\ LockHolds)
<1>1. ASSUME TypeOK, RowsHaveNodes, LockHolds, [Next]_vars
      PROVE  RowsHaveNodes' /\ LockHolds'
  BY <1>1, LockStep, QuietOrActivates, RunnersStay, RowsStep
<1> QED BY <1>1, RowsInitially, TypeCorrect, PTL DEF Spec

\* Once a wait was resolved, expired or cancelled it stays so, whatever the others
\* that raced for it had read: each of their updates has the status as a condition.
THEOREM WaitsEndOnce == Spec => WaitEndsOnce
<1> DEFINE Step == \A k \in Keys : wait[k] \in {"RESOLVED", "EXPIRED", "CANCELLED"} => wait'[k] = wait[k]
<1>1. ASSUME TypeOK, RowsHaveNodes, LockHolds, [Next]_vars PROVE Step
  <2>1. CASE Quiet
    BY <2>1 DEF Quiet
  <2>2. ASSUME NEW k, NEW T, NEW ended, NEW row, Activates(k, T, ended, row) PROVE Step
    BY <1>1, <2>2, ActivationRows DEF RowsHaveNodes
  <2> QED BY <1>1, <2>1, <2>2, QuietOrActivates
<1> QED BY <1>1, RowsInOrder, PTL DEF Spec, WaitEndsOnce

(***************************************************************************)
(* Retries.  fail_attempt compares the node's token with max_attempts.  An *)
(* Attempt that failed with a token at the limit ended its node, and no    *)
(* later Attempt follows: so all failed Attempts but one have tokens below *)
(* the limit, which tell them apart.                                       *)
(***************************************************************************)
Exhausted(a) == aStatus[a] = "FAILED" /\ aFence[a] >= MaxAttempts[aKey[a]]

RetriesInv ==
    /\ \A a \in Attempts : a <= made => aFence[a] >= 1
    /\ \A a \in Attempts : Exhausted(a) => /\ node[aKey[a]] \in {"FAILED", "REVIEW_REQUIRED"}
                                           /\ aFence[a] = fence[aKey[a]]

\* A node that failed for good gets no Attempt and no other status.
LEMMA FailedRests ==
    ASSUME TypeOK, AttemptInv, [Next]_vars, NEW k \in Keys,
           node[k] \in {"FAILED", "REVIEW_REQUIRED"}
    PROVE  node'[k] = node[k] /\ fence'[k] = fence[k]
<1> USE DEF rowVars, attemptVars
<1>0. \A a \in Attempts : aStatus[a] = "RUNNING" => aKey[a] # k
  BY DEF AttemptInv, RunnerHolds
<1>1. ASSUME NEW w \in Workers,
             \/ \E j \in Keys : ClaimSelect(w, j)
             \/ ClaimReserve(w) \/ ClaimOverBudget(w) \/ ClaimReject(w) \/ ClaimAbort(w)
      PROVE  node'[k] = node[k] /\ fence'[k] = fence[k]
  BY <1>1 DEF ClaimSelect, ClaimReserve, ClaimOverBudget, ClaimReject, ClaimAbort, TypeOK
<1>2. ASSUME NEW w \in Workers, ClaimCommit(w) PROVE node'[k] = node[k] /\ fence'[k] = fence[k]
  BY <1>2 DEF ClaimCommit, TypeOK
<1>3. ASSUME NEW a \in Attempts,
             \/ \E op \in Ops : \E arg \in Args(op) : Submit(op, a, arg)
             \/ Revoke(a) \/ Lapse(a) \/ ReapLease(a)
      PROVE  node'[k] = node[k] /\ fence'[k] = fence[k]
  BY <1>3 DEF Submit, Revoke, Lapse, ReapLease, TypeOK
<1>4. ASSUME NEW c \in calls, Heartbeat(c) \/ Checkpoint(c) \/ Replay(c) \/ Drop(c)
      PROVE  node'[k] = node[k] /\ fence'[k] = fence[k]
  BY <1>4 DEF Heartbeat, Checkpoint, Replay, Drop
<1>5. ASSUME NEW c \in calls, Fail(c) PROVE node'[k] = node[k] /\ fence'[k] = fence[k]
  <2>1. c.att \in Attempts /\ aStatus[c.att] = "RUNNING"
    BY <1>5 DEF TypeOK, Calls, Fail, Current
  <2>2. fence' = fence /\ \A j \in Keys \ {aKey[c.att]} : node'[j] = node[j]
    BY <1>5 DEF Fail, TypeOK
  <2> QED BY <1>0, <2>1, <2>2
<1>6. ASSUME NEW c \in calls, NEW over, NEW T, Complete(c, over, T)
      PROVE  node'[k] = node[k] /\ fence'[k] = fence[k]
  <2>1. fence' = fence
    BY <1>6 DEF Complete
  <2> QED BY <1>6, <2>1, CompleteRows
<1>7. ASSUME NEW j \in Keys, ReadOverdue(j) \/ ExpireWait(j) \/ ResolveWait(j)
      PROVE  node'[k] = node[k] /\ fence'[k] = fence[k]
  BY <1>7 DEF ReadOverdue, ExpireWait, ResolveWait, TypeOK
<1>8. CASE ControlStep \/ UNCHANGED vars
  BY <1>8 DEF ControlStep, Cancel, Pause, Resume, vars, TypeOK
<1> QED BY <1>1, <1>2, <1>3, <1>4, <1>5, <1>6, <1>7, <1>8 DEF Next, WorkerStep, ReaperStep

\* An Attempt that failed did so before, or does it now as the node's current one
\* and with the decision that its token calls for.
LEMMA FailureIsDecided ==
    ASSUME TypeOK, AttemptInv, [Next]_vars, NEW a \in Attempts, aStatus'[a] = "FAILED"
    PROVE  /\ aKey'[a] = aKey[a] /\ aFence'[a] = aFence[a]
           /\ \/ aStatus[a] = "FAILED"
              \/ /\ aFence[a] = fence[aKey[a]] /\ fence' = fence
                 /\ \E u : node'[aKey[a]] = RetryDecision(aKey[a], u, fence[aKey[a]])
<1> USE DEF rowVars, attemptVars
<1>1. ASSUME UNCHANGED <<aKey, aFence>>,
             \A b \in Attempts : aStatus'[b] \in {aStatus[b], "SUCCEEDED", "STALE", "CANCELLED"}
      PROVE  aKey'[a] = aKey[a] /\ aFence'[a] = aFence[a] /\ aStatus[a] = "FAILED"
  BY <1>1
<1>2. ASSUME NEW w \in Workers,
             \/ \E j \in Keys : ClaimSelect(w, j)
             \/ ClaimReserve(w) \/ ClaimOverBudget(w) \/ ClaimReject(w) \/ ClaimAbort(w)
      PROVE  aKey'[a] = aKey[a] /\ aFence'[a] = aFence[a] /\ aStatus[a] = "FAILED"
  BY <1>1, <1>2 DEF ClaimSelect, ClaimReserve, ClaimOverBudget, ClaimReject, ClaimAbort
<1>3. ASSUME NEW w \in Workers, ClaimCommit(w)
      PROVE  aKey'[a] = aKey[a] /\ aFence'[a] = aFence[a] /\ aStatus[a] = "FAILED"
  BY <1>3 DEF ClaimCommit, TypeOK
<1>4. ASSUME NEW b \in Attempts,
             \/ \E op \in Ops : \E arg \in Args(op) : Submit(op, b, arg)
             \/ Revoke(b) \/ Lapse(b) \/ ReapLease(b)
      PROVE  aKey'[a] = aKey[a] /\ aFence'[a] = aFence[a] /\ aStatus[a] = "FAILED"
  BY <1>1, <1>4 DEF Submit, Revoke, Lapse, ReapLease, TypeOK
<1>5. ASSUME NEW c \in calls, Heartbeat(c) \/ Checkpoint(c) \/ Replay(c) \/ Drop(c)
      PROVE  aKey'[a] = aKey[a] /\ aFence'[a] = aFence[a] /\ aStatus[a] = "FAILED"
  BY <1>1, <1>5 DEF Heartbeat, Checkpoint, Replay, Drop
<1>6. ASSUME NEW c \in calls, Fail(c)
      PROVE  /\ aKey'[a] = aKey[a] /\ aFence'[a] = aFence[a]
             /\ \/ aStatus[a] = "FAILED"
                \/ /\ aFence[a] = fence[aKey[a]] /\ fence' = fence
                   /\ \E u : node'[aKey[a]] = RetryDecision(aKey[a], u, fence[aKey[a]])
  <2>1. UNCHANGED <<aKey, aFence, fence>> /\ aStatus' = [aStatus EXCEPT ![c.att] = "FAILED"]
    BY <1>6 DEF Fail
  <2>2. CASE c.att = a
    <3> DEFINE decision == RetryDecision(aKey[a], c.arg = "uncertain", fence[aKey[a]])
    <3>1. aStatus[a] = "RUNNING" /\ node' = [node EXCEPT ![aKey[a]] = decision]
      BY <1>6, <2>2 DEF Fail, Current
    <3> HIDE DEF decision
    <3>2. aFence[a] = fence[aKey[a]] /\ node'[aKey[a]] = decision
      BY <3>1 DEF AttemptInv, RunnerHolds, TypeOK
    <3> QED BY <2>1, <3>2 DEF decision
  <2>3. CASE c.att # a
    BY <2>1, <2>3 DEF TypeOK
  <2> QED BY <2>2, <2>3
<1>7. ASSUME NEW c \in calls, NEW over, NEW T, Complete(c, over, T)
      PROVE  aKey'[a] = aKey[a] /\ aFence'[a] = aFence[a] /\ aStatus[a] = "FAILED"
  <2>1. UNCHANGED <<aKey, aFence>> /\ aStatus' = [aStatus EXCEPT ![c.att] = "SUCCEEDED"]
    BY <1>7 DEF Complete
  <2> QED BY <1>1, <2>1 DEF TypeOK
<1>8. ASSUME NEW j \in Keys, ReadOverdue(j) \/ ExpireWait(j) \/ ResolveWait(j)
      PROVE  aKey'[a] = aKey[a] /\ aFence'[a] = aFence[a] /\ aStatus[a] = "FAILED"
  BY <1>1, <1>8 DEF ReadOverdue, ExpireWait, ResolveWait
<1>9. CASE Cancel
  BY <1>1, <1>9 DEF Cancel
<1>10. CASE Pause \/ Resume \/ UNCHANGED vars
  BY <1>1, <1>10 DEF Pause, Resume, vars
<1> QED BY <1>2, <1>3, <1>4, <1>5, <1>6, <1>7, <1>8, <1>9, <1>10
        DEF Next, WorkerStep, ReaperStep, ControlStep

\* Every Attempt that is created has a token of at least one.
LEMMA TokensStart ==
    ASSUME TypeOK, [Next]_vars, NEW a \in Attempts, a <= made', a <= made => aFence[a] >= 1
    PROVE  aFence'[a] >= 1
<1> USE DEF rowVars, attemptVars
<1>1. ASSUME NEW w \in Workers, ClaimCommit(w) PROVE aFence'[a] >= 1
  <2>1. /\ fence[claim[w].key] \in Nat /\ made' = made + 1 /\ made \in Nat /\ a \in Int
        /\ aFence' = [aFence EXCEPT ![made + 1] = fence[claim[w].key] + 1]
    BY <1>1, BoundAssumption DEF ClaimCommit, NextFence, TypeOK, Claims, Attempts
  <2> QED BY <2>1 DEF TypeOK
<1>2. CASE UNCHANGED <<made, aFence>>
  BY <1>2
<1>3. ASSUME NEW c \in calls, NEW over, NEW T, Complete(c, over, T) PROVE UNCHANGED <<made, aFence>>
  BY <1>3 DEF Complete
<1>4. ASSUME NEW c \in calls, Fail(c) PROVE UNCHANGED <<made, aFence>>
  BY <1>4 DEF Fail
<1> QED BY <1>1, <1>2, <1>3, <1>4
        DEF Next, WorkerStep, ReaperStep, ControlStep, ClaimSelect, ClaimReserve, ClaimOverBudget,
            ClaimReject, ClaimAbort, Submit, Revoke, Heartbeat, Checkpoint, Replay, Drop, Lapse,
            ReapLease, ReadOverdue, ExpireWait, ResolveWait, Cancel, Pause, Resume, vars

\* Every step keeps the invariant.
LEMMA RetriesStep == ASSUME TypeOK, AttemptInv, RetriesInv, [Next]_vars PROVE RetriesInv'
<1>1. ASSUME NEW a \in Attempts, a <= made' PROVE aFence'[a] >= 1
  BY <1>1, TokensStart DEF RetriesInv
<1>2. ASSUME NEW a \in Attempts, Exhausted(a)'
      PROVE  node'[aKey'[a]] \in {"FAILED", "REVIEW_REQUIRED"} /\ aFence'[a] = fence'[aKey'[a]]
  <2>1. /\ aKey[a] \in Keys /\ aStatus'[a] = "FAILED"
        /\ aKey'[a] = aKey[a] /\ aFence'[a] = aFence[a] /\ aFence[a] >= MaxAttempts[aKey[a]]
    BY <1>2, FailureIsDecided DEF Exhausted, TypeOK
  <2>2. CASE aStatus[a] = "FAILED"
    <3>1. node[aKey[a]] \in {"FAILED", "REVIEW_REQUIRED"} /\ aFence[a] = fence[aKey[a]]
      BY <2>1, <2>2 DEF RetriesInv, Exhausted
    <3> QED BY <2>1, <3>1, FailedRests
  <2>3. CASE aStatus[a] # "FAILED"
    <3>1. PICK u : /\ aFence[a] = fence[aKey[a]] /\ fence' = fence
                   /\ node'[aKey[a]] = RetryDecision(aKey[a], u, fence[aKey[a]])
      BY <2>1, <2>3, FailureIsDecided
    <3>2. ~(fence[aKey[a]] < MaxAttempts[aKey[a]])
      BY <2>1, <3>1, PlanAssumption DEF TypeOK
    <3>3. RetryDecision(aKey[a], u, fence[aKey[a]]) \in {"FAILED", "REVIEW_REQUIRED"}
      BY <3>2 DEF RetryDecision
    <3> QED BY <2>1, <3>1, <3>3
  <2> QED BY <2>2, <2>3
<1> QED BY <1>1, <1>2 DEF RetriesInv, Exhausted

\* Tokens between one and n, and one more, are n at most.
LEMMA TokensUpTo ==
    ASSUME NEW n \in Nat \ {0}, NEW top
    PROVE  /\ IsFiniteSet((1..(n - 1)) \cup {top})
           /\ Cardinality((1..(n - 1)) \cup {top}) <= n
<1> DEFINE below == 1..(n - 1)
<1>1. IsFiniteSet(below) /\ Cardinality(below) = n - 1
  <2>1. 1 \in Int /\ n - 1 \in Int
    OBVIOUS
  <2>2. IsFiniteSet(below) /\ Cardinality(below) = IF 1 > n - 1 THEN 0 ELSE n - 1 - 1 + 1
    BY <2>1, FS_Interval
  <2> QED BY <2>2
<1> HIDE DEF below
<1>2. IsFiniteSet(below \cup {top})
      /\ Cardinality(below \cup {top}) = IF top \in below THEN Cardinality(below)
                                         ELSE Cardinality(below) + 1
  BY <1>1, FS_AddElement
<1>3. IsFiniteSet(below \cup {top}) /\ Cardinality(below \cup {top}) <= n
  BY <1>1, <1>2
<1> QED BY <1>3 DEF below

\* The retries of fail_attempt stay within max_attempts, whatever leases lapsed
\* and were reaped in between.
THEOREM RetriesWithinPolicy == Spec => []RetriesBounded
<1>1. Init => RetriesInv
  BY BoundAssumption DEF Init, RetriesInv, Exhausted, Attempts
<1>2. TypeOK /\ AttemptInv /\ RetriesInv => RetriesBounded
  <2> SUFFICES ASSUME TypeOK, AttemptInv, RetriesInv, NEW k \in Keys
               PROVE  Cardinality({a \in Attempts : aKey[a] = k /\ aStatus[a] = "FAILED"})
                         <= MaxAttempts[k]
    BY DEF RetriesBounded
  <2> DEFINE F == {a \in Attempts : aKey[a] = k /\ aStatus[a] = "FAILED"}
             G == (1..(MaxAttempts[k] - 1)) \cup {fence[k]}
             tokens == [a \in F |-> aFence[a]]
  <2>1. MaxAttempts[k] \in Nat \ {0}
    BY PlanAssumption
  <2>2. IsFiniteSet(G) /\ Cardinality(G) <= MaxAttempts[k]
    BY <2>1, TokensUpTo
  <2>3. ASSUME NEW a \in F PROVE a \in Int /\ a <= made /\ aFence[a] \in G
    <3>1. a \in Int /\ made \in Int /\ aFence[a] \in Nat
      BY BoundAssumption DEF Attempts, TypeOK
    <3>2. a <= made /\ aFence[a] >= 1
      BY <3>1 DEF AttemptInv, Created, RetriesInv
    <3>3. aFence[a] >= MaxAttempts[k] => aFence[a] = fence[k]
      BY DEF RetriesInv, Exhausted
    <3> QED BY <2>1, <3>1, <3>2, <3>3
  <2>4. ASSUME NEW a \in F, NEW b \in F, aFence[a] = aFence[b] PROVE a = b
    <3>1. aFence[a] \in Nat /\ a \in Int /\ b \in Int
      BY <2>3 DEF TypeOK
    <3>2. ~(a < b) /\ ~(b < a)
      BY <2>3, <2>4, <3>1 DEF AttemptInv, TokensGrow
    <3> QED BY <3>1, <3>2
  <2> HIDE DEF F, G
  <2>5. tokens \in Injection(F, G)
    <3>1. tokens \in [F -> G]
      BY <2>3
    <3>2. IsInjective(tokens)
      BY <2>4 DEF IsInjective
    <3> QED BY <3>1, <3>2 DEF Injection
  <2>6. Cardinality(F) <= Cardinality(G) /\ IsFiniteSet(F)
    BY <2>2, <2>5, FS_Injection
  <2>7. Cardinality(F) \in Nat /\ Cardinality(G) \in Nat
    BY <2>2, <2>6, FS_CardinalityType
  <2> QED BY <2>1, <2>2, <2>6, <2>7 DEF F
<1>3. TypeOK /\ AttemptInv /\ RetriesInv /\ [Next]_vars => RetriesInv'
  BY RetriesStep
<1> QED BY <1>1, <1>2, <1>3, AttemptsInStep, PTL DEF Spec

=============================================================================
