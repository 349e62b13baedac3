---------------------------- MODULE GraphRuntime ----------------------------
(***************************************************************************)
(* The Graph Runtime of src/scripts/lib/graph_runtime.py: one Run of a     *)
(* compiled acyclic plan, its Node Runs, their Ready rows, the Attempts of *)
(* the workers that claim them, and the Lease Token of every Attempt.      *)
(*                                                                         *)
(* One action is one database transaction, except where the code acts on   *)
(* something it read before taking a lock: a worker call verifies its      *)
(* token in a transaction of its own (Submit) before the one that writes,  *)
(* a claim selects a candidate and reads the budget before it writes, and  *)
(* the reaper reads the overdue waits before it expires them.              *)
(***************************************************************************)
EXTENDS Integers, FiniteSets

CONSTANTS
    Keys,          \* node keys of the compiled plan
    Entry,         \* plan.entry_node
    Exits,         \* plan.exit_nodes
    Edges,         \* <<source, target>>, at most one edge per pair
    Conditional,   \* the edges whose decision_type is EXPRESSION or RULES
    Strategy,      \* join strategy of each key (used for the join targets)
    Required,      \* join_specs[k].required_count
    WaitKeys,      \* EVENT, TIMER and HUMAN nodes
    TimedWaits,    \* the wait nodes with a timeout_seconds
    Rejectable,    \* the nodes whose claim may fail admission
    Effect,        \* side_effect_class of each key
    MaxAttempts,   \* retry_policy.max_attempts of each key
    MaxCalls,      \* the Run's hard budget max_calls
    Workers,       \* worker processes that poll claim_ready
    Ops,           \* the lease operations the workers use
    Digests,       \* completion payloads, told apart by their digest
    Controls,      \* the run controls the operators use
    AttemptBound,  \* model bound: Attempts created in a behaviour
    CallBound,     \* model bound: verified calls in flight at once
    SeqBound       \* model bound: checkpoints a worker's own saves may reach

\* The compiler lets every node be reached from the entry, so that in an acyclic
\* plan no edge leads back to it.
ASSUME PlanAssumption ==
    /\ IsFiniteSet(Keys) /\ Entry \in Keys /\ Exits \subseteq Keys
    /\ \A k \in Keys : <<k, Entry>> \notin Edges
    /\ Edges \subseteq Keys \X Keys /\ Conditional \subseteq Edges
    /\ WaitKeys \subseteq Keys /\ TimedWaits \subseteq WaitKeys
    /\ Rejectable \subseteq Keys
    /\ Effect \in [Keys -> {"NONE", "IDEMPOTENT_EXTERNAL", "NON_IDEMPOTENT"}]
    /\ MaxAttempts \in [Keys -> Nat \ {0}]
    /\ Strategy \in [Keys -> {"ALL", "ANY", "FIRST_SUCCESS", "N_OF_M", "QUORUM"}]
    /\ Required \in [Keys -> Nat]

ASSUME BoundAssumption ==
    /\ MaxCalls \in Nat /\ AttemptBound \in Nat /\ CallBound \in Nat /\ SeqBound \in Nat
    /\ Ops \subseteq {"heartbeat", "checkpoint", "complete", "fail", "revoke"}
    /\ Controls \subseteq {"cancel", "pause"}
    /\ Digests \cap {"certain", "uncertain", "none"} = {}

VARIABLES
    run,           \* GRAPH_RUNS.STATUS
    usage,         \* GRAPH_RUNS.BUDGET_USAGE_JSON.calls
    seq,           \* highest SEQ_NO of the Run's checkpoints
    writer,        \* the Attempt that wrote checkpoint seq, 0 for none
    node,          \* GRAPH_NODE_RUNS.STATUS by node key
    output,        \* GRAPH_NODE_RUNS.OUTPUT_CHECKPOINT_ID, 0 for NULL
    ready,         \* GRAPH_READY_NODES.STATUS by node key
    fence,         \* MAX(GRAPH_ATTEMPTS.FENCING_TOKEN) by node key
    wait,          \* GRAPH_WAIT_SUBSCRIPTIONS.STATUS by node key
    join,          \* GRAPH_JOIN_STATES.STATUS by node key
    inputs,        \* GRAPH_JOIN_STATES.INPUTS_JSON: the sources that arrived
    made,          \* number of rows in GRAPH_ATTEMPTS
    aKey,          \* the node key of an Attempt
    aStatus,       \* GRAPH_ATTEMPTS.STATUS
    aFence,        \* GRAPH_ATTEMPTS.FENCING_TOKEN and the token's copy of it
    lapsed,        \* LEASE_EXPIRES_AT and EXPIRES_AT are in the past
    revoked,       \* GRAPH_LEASE_TOKENS.REVOKED_AT is set
    digest,        \* GRAPH_ATTEMPTS.COMPLETION_DIGEST
    claim,         \* the claim transaction each worker has open
    calls,         \* worker calls whose token was verified, not yet run
    due,           \* waits the reaper read as overdue, not yet expired
    acked          \* completions reported to workers: Attempt, digest, checkpoint

rowVars == <<node, output, ready, fence, wait, join, inputs>>
attemptVars == <<made, aKey, aStatus, aFence, lapsed, revoked, digest>>
vars == <<run, usage, seq, writer, rowVars, attemptVars, claim, calls, due, acked>>

RunStatus == {"RUNNING", "WAITING", "PAUSED", "SUCCEEDED", "FAILED",
              "CANCELLED", "REVIEW_REQUIRED"}
NodeStatus == {"NONE", "READY", "RUNNING", "WAITING", "SUCCEEDED", "FAILED",
               "CANCELLED", "SKIPPED", "REVIEW_REQUIRED"}
ReadyStatus == {"NONE", "READY", "CLAIMED", "WAITING", "DONE", "CANCELLED"}
AttemptStatus == {"NONE", "RUNNING", "SUCCEEDED", "FAILED", "CANCELLED", "STALE"}
WaitStatus == {"NONE", "WAITING", "RESOLVED", "EXPIRED", "CANCELLED"}
JoinStatus == {"NONE", "WAITING", "COMMITTED"}

Attempts == 1..AttemptBound

\* Mutants: cancel_run takes a finished Run for a running one; it forgets the
\* rows that are claimed.
TerminalWithoutSuccess == {"FAILED", "CANCELLED"}
LiveUnclaimed == {"READY", "WAITING"}

Terminal == {"SUCCEEDED", "FAILED", "CANCELLED"}
Live == {"READY", "CLAIMED", "WAITING"}      \* Ready rows not yet consumed

\* What a verified call carries: the digest of its payload (complete), whether
\* its error code is one of UNCERTAIN_OUTCOME_CODES (fail), or nothing.
Args(op) == CASE op = "complete" -> Digests
              [] op = "fail" -> {"certain", "uncertain"}
              [] OTHER -> {"none"}
Calls == {c \in [op : Ops, att : Attempts, arg : Digests \cup {"certain", "uncertain", "none"}] :
            c.arg \in Args(c.op)}

Idle == [stage |-> "idle", key |-> Entry, seen |-> 0]
Claims == [stage : {"idle", "selected", "reserved"}, key : Keys, seen : Nat]

(***************************************************************************)
(* The compiled plan.                                                      *)
(***************************************************************************)
Sources(t) == {s \in Keys : <<s, t>> \in Edges}
Targets(k) == {t \in Keys : <<k, t>> \in Edges}

\* join_specs has an entry for every node with more than one incoming edge.
Joins == {t \in Keys : \E s1, s2 \in Sources(t) : s1 # s2}

\* Mutant: QUORUM without the majority.
JoinReadyAnyQuorum(t, arrived) == Cardinality(arrived) >= Required[t]

\* The readiness of a join, by strategy.
JoinReady(t, arrived) ==
    LET accepted == Cardinality(arrived)
        expected == Cardinality(Sources(t))
    IN  CASE Strategy[t] = "ALL" -> accepted >= expected
          [] Strategy[t] \in {"ANY", "FIRST_SUCCESS"} -> accepted >= 1
          [] Strategy[t] = "N_OF_M" -> accepted >= Required[t]
          [] Strategy[t] = "QUORUM" -> /\ accepted >= Required[t]
                                       /\ accepted >= expected \div 2 + 1
          [] OTHER -> FALSE

\* Mutant: one retry too many.
RetryDecisionOffByOne(k, uncertain, used) ==
    IF Effect[k] # "NON_IDEMPOTENT" /\ used <= MaxAttempts[k] THEN "READY" ELSE "FAILED"

\* side_effect_retry_decision: what becomes of the node of a failed Attempt.
RetryDecision(k, uncertain, used) ==
    IF Effect[k] = "NON_IDEMPOTENT"
    THEN IF uncertain THEN "REVIEW_REQUIRED" ELSE "FAILED"
    ELSE IF used < MaxAttempts[k] THEN "READY"
    ELSE IF uncertain THEN "REVIEW_REQUIRED" ELSE "FAILED"

Init ==
    /\ run = "RUNNING" /\ usage = 0 /\ seq = 0 /\ writer = 0
    /\ node = [k \in Keys |-> IF k = Entry THEN "READY" ELSE "NONE"]
    /\ ready = [k \in Keys |-> IF k = Entry THEN "READY" ELSE "NONE"]
    /\ output = [k \in Keys |-> 0]
    /\ fence = [k \in Keys |-> 0]
    /\ wait = [k \in Keys |-> "NONE"]
    /\ join = [k \in Keys |-> "NONE"]
    /\ inputs = [k \in Keys |-> {}]
    /\ made = 0
    /\ aKey = [a \in Attempts |-> Entry]
    /\ aStatus = [a \in Attempts |-> "NONE"]
    /\ aFence = [a \in Attempts |-> 0]
    /\ lapsed = [a \in Attempts |-> FALSE]
    /\ revoked = [a \in Attempts |-> FALSE]
    /\ digest = [a \in Attempts |-> "none"]
    /\ claim = [w \in Workers |-> Idle]
    /\ calls = {} /\ due = {} /\ acked = {}

(***************************************************************************)
(* claim_ready.  Selecting a candidate, taking its Ready row and reading   *)
(* the budget, and writing the Attempt are separate statements; between    *)
(* the last two the transaction holds the lock of the Ready row.           *)
(***************************************************************************)
Unlocked(k) == \A w \in Workers : claim[w].stage = "reserved" => claim[w].key # k

\* The candidate query: a Ready row of a Run that is RUNNING at this moment.
ClaimSelect(w, k) ==
    /\ claim[w].stage = "idle"
    /\ ready[k] = "READY" /\ run = "RUNNING"
    /\ claim' = [claim EXCEPT ![w] = [stage |-> "selected", key |-> k, seen |-> 0]]
    /\ UNCHANGED <<run, usage, seq, writer, rowVars, attemptVars, calls, due, acked>>

\* A candidate whose deadline passed, whose executor is gone or whose input
\* does not match the schema is cancelled and the Run goes to review.  Every
\* update has its own condition: the candidate may have been taken meanwhile.
ClaimReject(w) ==
    LET k == claim[w].key
    IN  /\ claim[w].stage = "selected" /\ k \in Rejectable /\ Unlocked(k)
        /\ ready' = [ready EXCEPT ![k] = IF @ = "READY" THEN "CANCELLED" ELSE @]
        /\ node' = [node EXCEPT ![k] = IF @ = "READY" THEN "REVIEW_REQUIRED" ELSE @]
        /\ run' = IF run = "RUNNING" THEN "REVIEW_REQUIRED" ELSE run
        /\ claim' = [claim EXCEPT ![w] = Idle]
        /\ UNCHANGED <<usage, seq, writer, output, fence, wait, join, inputs,
                       attemptVars, calls, due, acked>>

\* The conditional update of the Ready row, then the read of the budget.
ClaimReserve(w) ==
    LET k == claim[w].key
        taken == ready[k] = "READY"
    IN  /\ claim[w].stage = "selected" /\ Unlocked(k)
        /\ taken => usage < MaxCalls
        /\ claim' = [claim EXCEPT ![w] =
                        IF taken THEN [stage |-> "reserved", key |-> k, seen |-> usage]
                        ELSE Idle]
        /\ UNCHANGED <<run, usage, seq, writer, rowVars, attemptVars, calls, due, acked>>

\* The reservation exceeds the hard budget: the row waits, the Run is reviewed.
ClaimOverBudget(w) ==
    LET k == claim[w].key
    IN  /\ claim[w].stage = "selected" /\ Unlocked(k)
        /\ ready[k] = "READY" /\ usage >= MaxCalls
        /\ ready' = [ready EXCEPT ![k] = "WAITING"]
        /\ run' = IF run \in Terminal THEN run ELSE "REVIEW_REQUIRED"
        /\ claim' = [claim EXCEPT ![w] = Idle]
        /\ UNCHANGED <<usage, seq, writer, node, output, fence, wait, join, inputs,
                       attemptVars, calls, due, acked>>

\* Mutant: a second Attempt takes the token of the first.
NextFenceReused(k) == IF fence[k] = 0 THEN 1 ELSE fence[k]

\* One more than the highest token any Attempt of the Node Run had.
NextFence(k) == fence[k] + 1

\* The budget is written back as the value read plus one, and the Attempt, its
\* fencing token and its lease are created.
ClaimCommit(w) ==
    LET k == claim[w].key
        a == made + 1
    IN  /\ claim[w].stage = "reserved" /\ a \in Attempts
        /\ node[k] = "READY"
        /\ ready' = [ready EXCEPT ![k] = "CLAIMED"]
        /\ node' = [node EXCEPT ![k] = "RUNNING"]
        /\ usage' = IF run \in Terminal THEN usage ELSE claim[w].seen + 1
        /\ fence' = [fence EXCEPT ![k] = NextFence(k)]
        /\ made' = a
        /\ aKey' = [aKey EXCEPT ![a] = k]
        /\ aStatus' = [aStatus EXCEPT ![a] = "RUNNING"]
        /\ aFence' = [aFence EXCEPT ![a] = NextFence(k)]
        /\ claim' = [claim EXCEPT ![w] = Idle]
        /\ UNCHANGED <<run, seq, writer, output, wait, join, inputs,
                       lapsed, revoked, digest, calls, due, acked>>

\* The process dies, the database aborts the transaction as a deadlock victim,
\* or the Node Run is no longer READY: the transaction rolls back.
ClaimAbort(w) ==
    /\ claim[w].stage # "idle"
    /\ claim' = [claim EXCEPT ![w] = Idle]
    /\ UNCHANGED <<run, usage, seq, writer, rowVars, attemptVars, calls, due, acked>>

(***************************************************************************)
(* The worker protocol.  _verify_lease and _verify_completion_lease run in *)
(* a transaction of their own, before the one that acts.                   *)
(***************************************************************************)
LeaseLive(a) == aStatus[a] = "RUNNING" /\ ~revoked[a] /\ ~lapsed[a]

\* Mutants: any Attempt that was ever created passes for the current one; the
\* lease is not read again under its lock; it is not read again at all.
CurrentEver(a) == aStatus[a] # "NONE"
CompletionLeaseUnlocked(a) == aStatus[a] = "RUNNING"
CompletionLeaseEver(a) == aStatus[a] # "NONE"

\* The fence of heartbeat and fail_attempt, inside their transactions.
Current(a) == aStatus[a] = "RUNNING"

\* The fence of complete_attempt, under the row locks of Attempt and token.
CompletionLease(a) == LeaseLive(a)

\* _write_checkpoint_tx takes the number after the last checkpoint's and updates
\* the Run's row, which stays locked.  A writer that lost the race for the number
\* violates a unique key and rolls back (Drop).
Saved(by) == seq' = seq + 1 /\ writer' = by

Submit(op, a, arg) ==
    /\ op \in Ops \ {"revoke"} /\ arg \in Args(op)
    /\ LeaseLive(a) \/ (op = "complete" /\ aStatus[a] = "SUCCEEDED")
    /\ Cardinality(calls) < CallBound
    /\ calls' = calls \cup {[op |-> op, att |-> a, arg |-> arg]}
    /\ UNCHANGED <<run, usage, seq, writer, rowVars, attemptVars, claim, due, acked>>

\* The call's transaction rolls back, or the code refuses it and changes
\* nothing: a stale token, a lost race, an invalid output, a broken connection.
Drop(c) ==
    /\ calls' = calls \ {c}
    /\ UNCHANGED <<run, usage, seq, writer, rowVars, attemptVars, claim, due, acked>>

\* heartbeat: both expiry columns move, the token's only while not revoked.
Heartbeat(c) ==
    /\ c.op = "heartbeat" /\ Current(c.att)
    /\ lapsed' = [lapsed EXCEPT ![c.att] = FALSE]
    /\ calls' = calls \ {c}
    /\ UNCHANGED <<run, usage, seq, writer, rowVars, made, aKey, aStatus, aFence,
                   revoked, digest, claim, due, acked>>

\* graph_worker.checkpoint: append_checkpoint looks at the Run's sequence only.
Checkpoint(c) ==
    /\ c.op = "checkpoint" /\ seq < SeqBound
    /\ Saved(c.att)
    /\ calls' = calls \ {c}
    /\ UNCHANGED <<run, usage, rowVars, attemptVars, claim, due, acked>>

\* graph_worker.revoke: the token is revoked, the Attempt stays RUNNING.
\* What may happen between its check and its update revokes the token as well.
Revoke(a) ==
    /\ "revoke" \in Ops /\ LeaseLive(a)
    /\ revoked' = [revoked EXCEPT ![a] = TRUE]
    /\ UNCHANGED <<run, usage, seq, writer, rowVars, made, aKey, aStatus, aFence,
                   lapsed, digest, claim, calls, due, acked>>

(***************************************************************************)
(* _activate_downstream_tx for a Node Run k that just ended and the        *)
(* targets T of the edges selected: the rows it opens, and what becomes of *)
(* the Run.  A join opens when its inputs, with k, suffice.                *)
(***************************************************************************)
\* Mutants: a contribution replaces the earlier ones; only joins are opened; the
\* unique key of the Node Runs is missing.
ArrivedLast(t, k) == {k}
OpenedJoinsOnly(k, T) == {t \in T \cap Joins : JoinReady(t, inputs[t] \cup {k})}
InsertableAlways(k, T) == TRUE

Arrived(t, k) == inputs[t] \cup {k}
Opened(k, T) == {t \in T : t \in Joins => JoinReady(t, Arrived(t, k))}

\* _insert_ready_tx finds a live Ready row or inserts a Node Run; a second
\* Node Run for the same key violates the unique key and aborts everything.
Fresh(k, T) == {t \in Opened(k, T) : ready[t] \notin Live}
Insertable(k, T) == \A t \in Fresh(k, T) : node[t] = "NONE"

\* Mutant: the Ready row gets a status of the Node Runs.
ConsumedAsSucceeded(k) == IF ready[k] = "CLAIMED" THEN "SUCCEEDED" ELSE ready[k]

\* The Ready row of a completed Node Run.
Consumed(k) == IF ready[k] = "CLAIMED" THEN "DONE" ELSE ready[k]

\* Node Run k ends with the given status, its Ready row with the other.
ActivateAs(k, T, ended, row) ==
    /\ Insertable(k, T)
    /\ node' = [t \in Keys |-> IF t = k THEN ended
                              ELSE IF t \notin Fresh(k, T) THEN node[t]
                              ELSE IF t \in WaitKeys THEN "WAITING" ELSE "READY"]
    /\ ready' = [t \in Keys |-> IF t = k THEN row
                               ELSE IF t \notin Fresh(k, T) THEN ready[t]
                               ELSE IF t \in WaitKeys THEN "WAITING" ELSE "READY"]
    /\ wait' = [t \in Keys |-> IF t \in Fresh(k, T) \cap WaitKeys THEN "WAITING"
                              ELSE wait[t]]
    /\ join' = [t \in Keys |->
                  IF t \notin T \cap Joins \/ join[t] = "COMMITTED" THEN join[t]
                  ELSE IF t \in Opened(k, T) THEN "COMMITTED" ELSE "WAITING"]
    /\ inputs' = [t \in Keys |->
                    IF t \in T \cap Joins /\ join[t] # "COMMITTED" THEN Arrived(t, k)
                    ELSE inputs[t]]
    /\ run' = CASE T # {} /\ run = "RUNNING" /\ Opened(k, T) \cap WaitKeys # {} -> "WAITING"
               [] T = {} /\ run \notin Terminal /\ k \in Exits -> "SUCCEEDED"
               [] T = {} /\ run \notin Terminal /\ k \notin Exits -> "REVIEW_REQUIRED"
               [] OTHER -> run

Activate(k, T) == ActivateAs(k, T, "SUCCEEDED", Consumed(k))

\* The edges taken: every FIXED one, and those whose condition holds.
Selections(k) == {T \in SUBSET Targets(k) :
                    \A t \in Targets(k) : <<k, t>> \notin Conditional => t \in T}

\* The update of the Node Run that must affect one row, or all is rolled back.
Uncommitted(k) == node[k] = "RUNNING"

\* complete_attempt, first commit.  The Attempt and its lease are read again
\* under their row locks; the node must still be RUNNING.  The evidence may
\* exhaust the budget (over), and then nothing downstream is activated.
Complete(c, over, T) ==
    LET a == c.att
        k == aKey[a]
    IN  /\ c.op = "complete" /\ CompletionLease(a) /\ Uncommitted(k)
        /\ Saved(a)
        /\ output' = [output EXCEPT ![k] = seq + 1]
        /\ aStatus' = [aStatus EXCEPT ![a] = "SUCCEEDED"]
        /\ digest' = [digest EXCEPT ![a] = c.arg]
        /\ revoked' = [revoked EXCEPT ![a] = TRUE]
        /\ acked' = acked \cup {<<a, c.arg, seq + 1>>}
        /\ calls' = calls \ {c}
        /\ IF over \/ run \in {"CANCELLED", "PAUSED", "REVIEW_REQUIRED"}
           THEN /\ node' = [node EXCEPT ![k] = "SUCCEEDED"]
                /\ ready' = [ready EXCEPT ![k] = Consumed(k)]
                /\ run' = IF over /\ run \notin Terminal THEN "REVIEW_REQUIRED" ELSE run
                /\ UNCHANGED <<wait, join, inputs>>
           ELSE Activate(k, T)
        /\ UNCHANGED <<usage, fence, made, aKey, aFence, lapsed, claim, due>>

\* complete_attempt, exact replay of a committed completion: the original
\* checkpoint is returned and nothing is written.
Replay(c) ==
    /\ c.op = "complete" /\ aStatus[c.att] = "SUCCEEDED" /\ digest[c.att] = c.arg
    /\ acked' = acked \cup {<<c.att, c.arg, output[aKey[c.att]]>>}
    /\ calls' = calls \ {c}
    /\ UNCHANGED <<run, usage, seq, writer, rowVars, attemptVars, claim, due>>

\* fail_attempt: the Attempt is fenced by its status only, and the node is
\* retried or ends as side_effect_retry_decision says.
Fail(c) ==
    LET a == c.att
        k == aKey[a]
        decision == RetryDecision(k, c.arg = "uncertain", fence[k])
        retry == decision = "READY"
    IN  /\ c.op = "fail" /\ Current(a)
        /\ aStatus' = [aStatus EXCEPT ![a] = "FAILED"]
        /\ revoked' = [revoked EXCEPT ![a] = TRUE]
        /\ node' = [node EXCEPT ![k] = decision]
        /\ ready' = [ready EXCEPT ![k] =
                       IF retry /\ @ \in {"CLAIMED", "WAITING"} THEN "READY" ELSE @]
        /\ run' = IF retry
                  THEN IF run \in {"CANCELLED", "SUCCEEDED"} THEN run ELSE "RUNNING"
                  ELSE IF run \in Terminal THEN run ELSE decision
        /\ calls' = calls \ {c}
        /\ UNCHANGED <<usage, seq, writer, output, fence, wait, join, inputs, made,
                       aKey, aFence, lapsed, digest, claim, due, acked>>

(***************************************************************************)
(* Time and reap_expired_leases.                                           *)
(***************************************************************************)
\* Mutants: the reaper skips revoked tokens, forgets the Ready row, leaves the
\* waits of a paused Run alone, and overwrites a wait that was resolved.
OverdueUnrevoked(a) == aStatus[a] = "RUNNING" /\ lapsed[a] /\ ~revoked[a]
RequeuedNot(k) == ready[k]
AwaitedUnpaused(k) == wait[k] = "WAITING" /\ run # "PAUSED"
ExpiredBlindly(k) == "EXPIRED"

Overdue(a) == aStatus[a] = "RUNNING" /\ lapsed[a]
Requeued(k) == IF ready[k] = "CLAIMED" THEN "READY" ELSE ready[k]
Awaited(k) == wait[k] = "WAITING"
Expired(k) == IF wait[k] = "WAITING" THEN "EXPIRED" ELSE wait[k]

Lapse(a) ==
    /\ aStatus[a] = "RUNNING" /\ ~lapsed[a]
    /\ lapsed' = [lapsed EXCEPT ![a] = TRUE]
    /\ UNCHANGED <<run, usage, seq, writer, rowVars, made, aKey, aStatus, aFence,
                   revoked, digest, claim, calls, due, acked>>

ReapLease(a) ==
    LET k == aKey[a]
    IN  /\ Overdue(a)
        /\ aStatus' = [aStatus EXCEPT ![a] = "STALE"]
        /\ revoked' = [revoked EXCEPT ![a] = TRUE]
        /\ node' = [node EXCEPT ![k] = IF @ = "RUNNING" THEN "READY" ELSE @]
        /\ ready' = [ready EXCEPT ![k] = Requeued(k)]
        /\ UNCHANGED <<run, usage, seq, writer, output, fence, wait, join, inputs, made,
                       aKey, aFence, lapsed, digest, claim, calls, due, acked>>

\* The reaper's query for overdue waits.
ReadOverdue(k) ==
    /\ k \in TimedWaits \ due /\ Awaited(k)
    /\ due' = due \cup {k}
    /\ UNCHANGED <<run, usage, seq, writer, rowVars, attemptVars, claim, calls, acked>>

\* Each row is updated under its own condition; the Run's does not depend on
\* the wait still being WAITING.
ExpireWait(k) ==
    /\ k \in due /\ due' = due \ {k}
    /\ wait' = [wait EXCEPT ![k] = Expired(k)]
    /\ node' = [node EXCEPT ![k] = IF @ = "WAITING" THEN "FAILED" ELSE @]
    /\ ready' = [ready EXCEPT ![k] = IF @ = "WAITING" THEN "DONE" ELSE @]
    /\ run' = IF run \in {"WAITING", "RUNNING"} THEN "FAILED" ELSE run
    /\ UNCHANGED <<usage, seq, writer, output, fence, join, inputs, attemptVars,
                   claim, calls, acked>>

\* resolve_waits, for the wait an event matches.
ResolveWait(k) ==
    /\ wait[k] = "WAITING"
    /\ wait' = [wait EXCEPT ![k] = "RESOLVED"]
    /\ Saved(0)
    /\ node' = [node EXCEPT ![k] = IF @ = "WAITING" THEN "READY" ELSE @]
    /\ ready' = [ready EXCEPT ![k] = IF @ = "WAITING" THEN "READY" ELSE @]
    /\ run' = IF run = "WAITING" /\ \A t \in Keys \ {k} : wait[t] # "WAITING"
              THEN "RUNNING" ELSE run
    /\ UNCHANGED <<usage, output, fence, join, inputs, attemptVars, claim, calls,
                   due, acked>>

(***************************************************************************)
(* Run controls.  They wait for the Ready rows a claim has locked.         *)
(***************************************************************************)
Cancel ==
    /\ "cancel" \in Controls /\ run \notin Terminal
    /\ \A k \in Keys : Unlocked(k)
    /\ run' = "CANCELLED"
    /\ ready' = [k \in Keys |-> IF ready[k] \in Live THEN "CANCELLED" ELSE ready[k]]
    /\ node' = [k \in Keys |-> IF node[k] \in {"READY", "WAITING", "RUNNING"}
                               THEN "CANCELLED" ELSE node[k]]
    /\ aStatus' = [a \in Attempts |-> IF aStatus[a] = "RUNNING" THEN "CANCELLED"
                                      ELSE aStatus[a]]
    /\ revoked' = [a \in Attempts |-> revoked[a] \/ aStatus[a] # "NONE"]
    /\ wait' = [k \in Keys |-> IF wait[k] = "WAITING" THEN "CANCELLED" ELSE wait[k]]
    /\ UNCHANGED <<usage, seq, writer, output, fence, join, inputs, made, aKey,
                   aFence, lapsed, digest, claim, calls, due, acked>>

Pause ==
    /\ "pause" \in Controls /\ run \in {"RUNNING", "WAITING"}
    /\ \A k \in Keys : Unlocked(k)
    /\ run' = "PAUSED"
    /\ ready' = [k \in Keys |-> IF ready[k] = "READY" THEN "WAITING" ELSE ready[k]]
    /\ UNCHANGED <<usage, seq, writer, node, output, fence, wait, join, inputs,
                   attemptVars, claim, calls, due, acked>>

\* Mutant: the Node Runs stay WAITING.
ResumeRowsOnly ==
    /\ "pause" \in Controls /\ run = "PAUSED"
    /\ run' = "RUNNING"
    /\ ready' = [k \in Keys |-> IF ready[k] = "WAITING" THEN "READY" ELSE ready[k]]
    /\ UNCHANGED <<usage, seq, writer, node, output, fence, wait, join, inputs,
                   attemptVars, claim, calls, due, acked>>

\* Every waiting row becomes claimable, the wait nodes' included.
Resume ==
    /\ "pause" \in Controls /\ run = "PAUSED"
    /\ run' = "RUNNING"
    /\ ready' = [k \in Keys |-> IF ready[k] = "WAITING" THEN "READY" ELSE ready[k]]
    /\ node' = [k \in Keys |-> IF node[k] = "WAITING" THEN "READY" ELSE node[k]]
    /\ UNCHANGED <<usage, seq, writer, output, fence, wait, join, inputs,
                   attemptVars, claim, calls, due, acked>>

WorkerStep ==
    \/ \E w \in Workers : \/ \E k \in Keys : ClaimSelect(w, k)
                          \/ ClaimReserve(w) \/ ClaimOverBudget(w)
                          \/ ClaimReject(w) \/ ClaimCommit(w) \/ ClaimAbort(w)
    \/ \E a \in Attempts : \/ \E op \in Ops : \E arg \in Args(op) : Submit(op, a, arg)
                           \/ Revoke(a)
    \/ \E c \in calls : \/ Heartbeat(c) \/ Checkpoint(c) \/ Replay(c) \/ Fail(c)
                        \/ Drop(c)
                        \/ \E over \in BOOLEAN, T \in Selections(aKey[c.att]) :
                              Complete(c, over, T)

ReaperStep ==
    \/ \E a \in Attempts : Lapse(a) \/ ReapLease(a)
    \/ \E k \in Keys : ReadOverdue(k) \/ ExpireWait(k) \/ ResolveWait(k)

ControlStep == Cancel \/ Pause \/ Resume

Next == WorkerStep \/ ReaperStep \/ ControlStep

Spec == Init /\ [][Next]_vars

\* Time passes, and someone keeps calling recover_runtime: an expired lease is
\* reaped in the end, and so is an overdue wait.  Workers and operators owe
\* nothing.
LiveSpec ==
    /\ Spec
    /\ \A a \in Attempts : WF_vars(Lapse(a)) /\ WF_vars(ReapLease(a))
    /\ \A k \in Keys : WF_vars(ReadOverdue(k)) /\ WF_vars(ExpireWait(k))

(***************************************************************************)
(* Correctness.                                                            *)
(***************************************************************************)
TypeOK ==
    /\ run \in RunStatus /\ usage \in Nat /\ seq \in Nat
    /\ writer \in Attempts \cup {0}
    /\ node \in [Keys -> NodeStatus] /\ output \in [Keys -> Nat]
    /\ ready \in [Keys -> ReadyStatus] /\ fence \in [Keys -> Nat]
    /\ wait \in [Keys -> WaitStatus] /\ join \in [Keys -> JoinStatus]
    /\ inputs \in [Keys -> SUBSET Keys]
    /\ made \in 0..AttemptBound
    /\ aKey \in [Attempts -> Keys] /\ aStatus \in [Attempts -> AttemptStatus]
    /\ aFence \in [Attempts -> Nat]
    /\ lapsed \in [Attempts -> BOOLEAN] /\ revoked \in [Attempts -> BOOLEAN]
    /\ digest \in [Attempts -> Digests \cup {"none"}]
    /\ claim \in [Workers -> Claims]
    /\ calls \subseteq Calls /\ due \subseteq Keys
    /\ acked \subseteq Attempts \X Digests \X Nat

\* A Node Run has at most one RUNNING Attempt, and that Attempt holds the
\* highest fencing token: graph_assurance.invariant_scan counts the opposite
\* as conflicting_current_attempts.
OneCurrentAttempt ==
    \A a, b \in Attempts :
        aStatus[a] = "RUNNING" /\ aKey[a] = aKey[b] /\ b <= made
            => aFence[b] < aFence[a] \/ b = a

\* What keeps OneCurrentAttempt true: tokens grow with every Attempt of a node,
\* and an Attempt that runs, or succeeded, has its node's rows in step with it.
Created == \A a \in Attempts : aStatus[a] = "NONE" <=> a > made
TokensBounded == \A a \in Attempts : a <= made => aFence[a] <= fence[aKey[a]]
TokensGrow ==
    \A a, b \in Attempts :
        a < b /\ b <= made /\ aKey[a] = aKey[b] => aFence[a] < aFence[b]
RunnerHolds ==
    \A a \in Attempts : aStatus[a] = "RUNNING" =>
        /\ node[aKey[a]] = "RUNNING" /\ ready[aKey[a]] = "CLAIMED"
        /\ aFence[a] = fence[aKey[a]]
SuccessHolds ==
    \A a \in Attempts : aStatus[a] = "SUCCEEDED" => node[aKey[a]] = "SUCCEEDED"

AttemptInv == Created /\ TokensBounded /\ TokensGrow /\ RunnerHolds /\ SuccessHolds

\* A Node Run that is RUNNING, or whose Ready row is CLAIMED in a Run that has
\* not stopped, is in the hands of a RUNNING Attempt: only an Attempt's lease
\* lets the reaper give the work back, so any other state is stuck for good.
NoOrphanedWork ==
    \A k \in Keys :
        node[k] = "RUNNING" \/ (ready[k] = "CLAIMED" /\ node[k] \notin {"FAILED", "REVIEW_REQUIRED"})
            => \E a \in Attempts : aKey[a] = k /\ aStatus[a] = "RUNNING"

\* A completion a worker was told of is final: its Attempt and its node stay
\* SUCCEEDED with the checkpoint the worker saw, no other Attempt of the node
\* succeeds, and a replay gets the same answer.
AckIsDurable ==
    \A x, y \in acked :
        /\ aStatus[x[1]] = "SUCCEEDED" /\ digest[x[1]] = x[2]
        /\ node[aKey[x[1]]] = "SUCCEEDED" /\ output[aKey[x[1]]] = x[3]
        /\ aKey[x[1]] = aKey[y[1]] => x = y

\* Cancelling a Run stops its work for good, whatever claim or call is in
\* flight: no Attempt runs, no row can be claimed, no token verifies.
CancelFences ==
    run = "CANCELLED" =>
        /\ \A k \in Keys : /\ ready[k] \notin {"READY", "CLAIMED", "WAITING"}
                           /\ wait[k] # "WAITING"
                           /\ node[k] \notin {"READY", "RUNNING", "WAITING"}
        /\ \A a \in Attempts : ~LeaseLive(a)

\* What each join strategy promises of the set S of committed predecessors.
Satisfied(t, S) ==
    CASE Strategy[t] = "ALL" -> S = Sources(t)
      [] Strategy[t] \in {"ANY", "FIRST_SUCCESS"} -> S # {}
      [] Strategy[t] = "N_OF_M" -> Cardinality(S) >= Required[t] /\ S # {}
      [] Strategy[t] = "QUORUM" -> /\ 2 * Cardinality(S) > Cardinality(Sources(t))
                                   /\ Cardinality(S) >= Required[t]

Committed(t) == {s \in Sources(t) : node[s] \in {"SUCCEEDED", "SKIPPED"}}

\* The node behind a join exists only after enough distinct predecessors
\* committed a result, or were skipped by an operator.
JoinIsEarned == \A t \in Joins : node[t] # "NONE" => Satisfied(t, Committed(t))

\* No arrival is lost: while the Run is RUNNING, a join waits no longer than
\* until its strategy is satisfied, in whatever order the branches commit.
JoinOpensInTime ==
    run = "RUNNING" => \A t \in Joins : Satisfied(t, Committed(t)) => node[t] # "NONE"

\* The automatic retries of a node stay within its retry policy, whatever
\* leases were lost in between.
RetriesBounded ==
    \A k \in Keys :
        Cardinality({a \in Attempts : aKey[a] = k /\ aStatus[a] = "FAILED"}) <= MaxAttempts[k]

\* Every checkpoint of a node's output is written by an Attempt that, at that
\* moment, is the node's current one under a valid lease.
CommitStep ==
    \A k \in Keys : output'[k] # output[k] =>
        \E a \in Attempts : /\ writer' = a /\ aKey[a] = k /\ LeaseLive(a)
                            /\ aFence[a] = fence[k] /\ aStatus'[a] = "SUCCEEDED"
CommitIsCurrent == [][CommitStep]_vars

\* The Attempts of a Node Run are grants of a fenced lease: tokens grow, and the one
\* Attempt that commits the node's result holds the latest token, whoever lapses,
\* is reaped, fails or is cancelled.  A FencedLease may grant anew what is held;
\* that no claim does so here is OneCurrentAttempt.
Running(k) == \E a \in Attempts : aKey[a] = k /\ aStatus[a] = "RUNNING"
Winners(k) == {aFence[a] : a \in {b \in Attempts : aKey[b] = k /\ aStatus[b] = "SUCCEEDED"}}
Lease == INSTANCE FencedLease WITH
            Resources <- Keys, token <- fence,
            held <- [k \in Keys |-> Running(k)], won <- [k \in Keys |-> Winners(k)]
AttemptsAreFenced == Lease!Spec

\* A Run that SUCCEEDED or was CANCELLED never changes its status again.
OutcomeStep == run \in {"SUCCEEDED", "CANCELLED"} => run' = run
OutcomeIsFinal == [][OutcomeStep]_vars

\* A committed join is a one-shot barrier: its accepted inputs never change
\* and its node is never opened a second time.
JoinIsOneShot ==
    [][\A t \in Joins : join[t] = "COMMITTED" =>
          /\ join'[t] = "COMMITTED" /\ inputs'[t] = inputs[t]
          /\ node'[t] # "NONE"
          /\ ready[t] \in {"DONE", "CANCELLED"} => ready'[t] = ready[t]]_vars

\* A Run that claims to make progress can: a RUNNING Run has a row a worker can
\* claim or one in a worker's hands, a WAITING Run has a subscription an event
\* or the reaper can still end.
NotStranded ==
    /\ run = "RUNNING" => \E k \in Keys : \/ ready[k] = "READY"
                                          \/ ready[k] = "CLAIMED" /\ node[k] = "RUNNING"
    /\ run = "WAITING" => \E k \in Keys : wait[k] = "WAITING"

\* A node that sleeps can be woken: while its Node Run is WAITING, so are its
\* subscription and the Ready row that resolve_waits and the reaper look for.
SleepersCanWake ==
    \A k \in Keys : node[k] = "WAITING" => wait[k] = "WAITING" /\ ready[k] = "WAITING"

\* Resolution, expiry and cancellation exclude each other: whichever ends a
\* subscription first is never overwritten by one that read it before.
WaitEndsOnce ==
    [][\A k \in Keys : (wait[k] \in {"RESOLVED", "EXPIRED", "CANCELLED"} => wait'[k] = wait[k])]_vars

\* The work of a revoked Attempt returns to the queue or ends: heartbeats in
\* flight cannot keep it from the reaper for ever.
AbandonedWorkReturns ==
    \A a \in Attempts : (aStatus[a] = "RUNNING" /\ revoked[a]) ~> aStatus[a] # "RUNNING"

\* A wait with a deadline ends, also when the Run is paused meanwhile.
TimedWaitsEnd ==
    \A k \in TimedWaits : wait[k] = "WAITING" ~> wait[k] # "WAITING"

(***************************************************************************)
(* What the documentation and the code's own checks say, and the code does *)
(* not keep: each has a run that shows a counterexample.                   *)
(***************************************************************************)

\* invariant_scan's terminal_run_active_nodes is 0: a Run that ended has no
\* node that is READY, RUNNING or WAITING.
NoActiveNodesInTerminalRun ==
    run \in Terminal => \A k \in Keys : node[k] \notin {"READY", "RUNNING", "WAITING"}

\* A NON_IDEMPOTENT node is never executed again after an outcome that is not
\* known, such as a worker that vanished with its lease (docs/security.md).
NeverRetriedBlindly ==
    \A a, b \in Attempts :
        aStatus[a] = "STALE" /\ Effect[aKey[a]] = "NON_IDEMPOTENT"
            => ~(b > a /\ aKey[b] = aKey[a] /\ aStatus[b] # "NONE")

\* A hard budget bounds the Attempts of a Run (docs/graph-engineering.md).
BudgetBounds == made <= MaxCalls
=============================================================================
