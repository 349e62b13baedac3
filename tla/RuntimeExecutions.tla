-------------------------- MODULE RuntimeExecutions --------------------------
(***************************************************************************)
(* The queue of the native runtime, CX_RUNTIME_EXECUTIONS: claim_runtime   *)
(* and reconcile_expired_runtime of src/scripts/lib/native_agent_api.py,   *)
(* execute_one and _finish of native_runtime.py, the answers it writes to  *)
(* the protected Channel (identity_api.py), a user's cancellation          *)
(* (agent_diagnostics.py) and the suspension of the Agent                  *)
(* (compliance_api.py).                                                    *)
(*                                                                         *)
(* One action is one committed statement or transaction, or one exchange   *)
(* with the model provider.                                                *)
(***************************************************************************)
EXTENDS Integers, FiniteSets

CONSTANTS
    Executions,    \* executions of one Agent
    Runners,       \* processes that loop over execute_one
    Nobody,        \* WORKER_ID is NULL
    FenceBound,    \* model bound: FENCING_TOKEN a claim may reach
    SuspendBound   \* model bound: suspensions of the Agent

ASSUME ExecutionAssumption ==
    /\ Nobody \notin Runners /\ FenceBound \in Nat /\ SuspendBound \in Nat

VARIABLES
    kind,          \* what INPUT_JSON asks for, NONE before it is queued
    exec,          \* STATUS of each execution, NONE before it is queued
    fencing,       \* FENCING_TOKEN
    holder,        \* WORKER_ID (and with it NODE_ID) of the claim
    expired,       \* LEASE_EXPIRES_AT has passed
    output,        \* the token under which OUTPUT_JSON was written, 0 for NULL
    response,      \* the Channel message that answers
    sends,         \* tokens under which the provider was called
    runner,        \* what each process is doing
    suspended,     \* the Agent's principal is not ACTIVE
    suspensions    \* how often it was suspended

claimVars == <<exec, fencing, holder, expired>>
executionVars == <<kind, claimVars, output, response, sends, runner, suspended, suspensions>>

ExecutionStatus == {"NONE", "PENDING", "CLAIMED", "COMPLETED", "FAILED", "CANCELLED", "UNOBSERVED"}
\* A task has no Channel; a mention is answered in the protected Channel, by the
\* provider or, prepared, from the database.
Kinds == {"task", "mention", "prepared"}
ExecutionEnds == {"COMPLETED", "FAILED", "CANCELLED", "UNOBSERVED"}
Unfinished == {"PENDING", "CLAIMED"}

\* The stages of execute_one.
RunnerStages == {"idle", "candidate", "claimed", "ready", "checked", "sent", "answered",
          "publishing", "published", "failing", "closing"}

\* by is the claim whose text the message shows, 0 for the spinner's marker.
NoAnswer == [state |-> "NONE", by |-> 0]
Placeholder == [state |-> "STREAMING", by |-> 0]
IdleRunner == [at |-> "idle", work |-> Nobody, token |-> 0]

ExecutionInit ==
    /\ kind = [e \in Executions |-> "NONE"]
    /\ exec = [e \in Executions |-> "NONE"]
    /\ fencing = [e \in Executions |-> 1]
    /\ holder = [e \in Executions |-> Nobody]
    /\ expired = [e \in Executions |-> FALSE]
    /\ output = [e \in Executions |-> 0]
    /\ response = [e \in Executions |-> NoAnswer]
    /\ sends = [e \in Executions |-> {}]
    /\ runner = [w \in Runners |-> IdleRunner]
    /\ suspended = FALSE /\ suspensions = 0

RunnerAt(w, s) == runner[w].at = s
Goto(w, s) == runner' = [runner EXCEPT ![w].at = s]
GoIdle(w) == runner' = [runner EXCEPT ![w] = IdleRunner]

\* enqueue, or the dispatch of a mention, which finds a second one's execution.
QueueExecution(e, input) ==
    /\ exec[e] = "NONE" /\ exec' = [exec EXCEPT ![e] = "PENDING"]
    /\ kind' = [kind EXCEPT ![e] = input]
    /\ UNCHANGED <<fencing, holder, expired, output, response, sends, runner, suspended, suspensions>>

(***************************************************************************)
(* Claims.                                                                 *)
(***************************************************************************)
ExpireClaim(e) ==
    /\ exec[e] = "CLAIMED" /\ ~expired[e] /\ expired' = [expired EXCEPT ![e] = TRUE]
    /\ UNCHANGED <<kind, exec, fencing, holder, output, response, sends, runner, suspended, suspensions>>

\* Ending an execution from outside burns its token.
Terminated(E, status) ==
    /\ exec' = [e \in Executions |-> IF e \in E THEN status ELSE exec[e]]
    /\ fencing' = [e \in Executions |-> IF e \in E THEN fencing[e] + 1 ELSE fencing[e]]
    /\ UNCHANGED <<holder, expired>>

\* reconcile_expired_runtime, which execute_one calls before it claims.
Reconcile(w, e) ==
    /\ RunnerAt(w, "idle") /\ exec[e] = "CLAIMED" /\ expired[e]
    /\ Terminated({e}, "UNOBSERVED")
    /\ UNCHANGED <<kind, output, response, sends, runner, suspended, suspensions>>

\* The candidate query of claim_runtime.
Candidate(w, e) ==
    /\ RunnerAt(w, "idle") /\ exec[e] = "PENDING"
    /\ runner' = [runner EXCEPT ![w] = [at |-> "candidate", work |-> e, token |-> fencing[e]]]
    /\ UNCHANGED <<kind, claimVars, output, response, sends, suspended, suspensions>>

\* Mutant: the claim does not look at the status again.
ClaimableAlways(e) == TRUE

\* The conditional update accepts more than the query: an expired claim, too.
Claimable(e) == exec[e] = "PENDING" \/ (exec[e] = "CLAIMED" /\ expired[e])

\* The token a claimant works with is computed from the one it read.
ClaimExecution(w) ==
    LET e == runner[w].work
    IN  /\ RunnerAt(w, "candidate") /\ Claimable(e) /\ fencing[e] < FenceBound
        /\ exec' = [exec EXCEPT ![e] = "CLAIMED"]
        /\ fencing' = [fencing EXCEPT ![e] = @ + 1]
        /\ holder' = [holder EXCEPT ![e] = w]
        /\ expired' = [expired EXCEPT ![e] = FALSE]
        /\ runner' = [runner EXCEPT ![w].at = "claimed", ![w].token = @ + 1]
        /\ UNCHANGED <<kind, output, response, sends, suspended, suspensions>>

MissCandidate(w) ==
    /\ RunnerAt(w, "candidate") /\ ~Claimable(runner[w].work) /\ GoIdle(w)
    /\ UNCHANGED <<kind, claimVars, output, response, sends, suspended, suspensions>>

\* The claim as provider_call, the publication and _finish check it.
HoldsClaim(w) ==
    LET e == runner[w].work
    IN  exec[e] = "CLAIMED" /\ holder[e] = w /\ fencing[e] = runner[w].token /\ ~expired[e]

(***************************************************************************)
(* The work of execute_one.                                                *)
(***************************************************************************)
\* begin_channel_agent_response: the insert of the one message an execution has
\* looks neither at the claim nor at the status.
Begun(e) == IF response[e] = NoAnswer THEN [response EXCEPT ![e] = Placeholder] ELSE response

\* _admit_execution and the checks of the Agent and its model succeed or not.
Admit(w, admitted) ==
    LET e == runner[w].work
    IN  /\ RunnerAt(w, "claimed")
        /\ Goto(w, IF admitted THEN "ready" ELSE "failing")
        /\ response' = IF admitted /\ kind[e] # "task" THEN Begun(e) ELSE response
        /\ UNCHANGED <<kind, claimVars, output, sends, suspended, suspensions>>

\* provider_call checks the claim before it sends; a prepared answer needs no
\* provider.
CheckClaim(w) ==
    LET e == runner[w].work
    IN  /\ RunnerAt(w, "ready")
        /\ Goto(w, IF kind[e] = "prepared" THEN "answered"
                   ELSE IF HoldsClaim(w) THEN "checked" ELSE "failing")
        /\ UNCHANGED <<kind, claimVars, output, response, sends, suspended, suspensions>>

CallProvider(w) ==
    /\ RunnerAt(w, "checked") /\ Goto(w, "sent")
    /\ sends' = [sends EXCEPT ![runner[w].work] = @ \cup {runner[w].token}]
    /\ UNCHANGED <<kind, claimVars, output, response, suspended, suspensions>>

\* Mutant: the answer is written whatever became of the execution.
WritableAlways(e) == TRUE

\* update_channel_agent_response, under the row locks of the principal and the
\* execution: any claim of the execution will do.
Writable(e) == ~suspended /\ exec[e] = "CLAIMED"
Shown(w, state) == [response EXCEPT ![runner[w].work] = [state |-> state, by |-> runner[w].token]]

\* The provider's answer; that to a mention is shown at once.
ProviderAnswers(w) ==
    LET e == runner[w].work
        shown == kind[e] # "task" /\ Writable(e)
    IN  /\ RunnerAt(w, "sent")
        /\ Goto(w, IF kind[e] = "task" \/ shown THEN "answered" ELSE "failing")
        /\ response' = IF shown THEN Shown(w, "STREAMING") ELSE response
        /\ UNCHANGED <<kind, claimVars, output, sends, suspended, suspensions>>

ProviderFails(w) ==
    /\ RunnerAt(w, "sent") /\ Goto(w, "failing")
    /\ UNCHANGED <<kind, claimVars, output, response, sends, suspended, suspensions>>

\* The claim is checked again before the text in the Channel is completed.
CheckPublication(w) ==
    LET e == runner[w].work
    IN  /\ RunnerAt(w, "answered")
        /\ Goto(w, IF kind[e] = "task" THEN "published"
                   ELSE IF HoldsClaim(w) THEN "publishing" ELSE "failing")
        /\ UNCHANGED <<kind, claimVars, output, response, sends, suspended, suspensions>>

Publish(w) ==
    LET written == Writable(runner[w].work)
    IN  /\ RunnerAt(w, "publishing") /\ Goto(w, IF written THEN "published" ELSE "failing")
        /\ response' = IF written THEN Shown(w, "DONE") ELSE response
        /\ UNCHANGED <<kind, claimVars, output, sends, suspended, suspensions>>

\* _finish: a completion that affects no row fails the execution's worker.
FinishCompleted(w) ==
    LET e == runner[w].work
    IN  /\ RunnerAt(w, "published")
        /\ IF HoldsClaim(w)
           THEN /\ exec' = [exec EXCEPT ![e] = "COMPLETED"]
                /\ output' = [output EXCEPT ![e] = runner[w].token]
                /\ GoIdle(w)
           ELSE Goto(w, "failing") /\ UNCHANGED <<exec, output>>
        /\ UNCHANGED <<kind, fencing, holder, expired, response, sends, suspended, suspensions>>

\* The answer to a failed mention: post_channel_agent_response begins it if need
\* be and completes it; its errors are swallowed.
ReportFailure(w, answered) ==
    LET e == runner[w].work
    IN  /\ RunnerAt(w, "failing") /\ Goto(w, "closing")
        /\ response' = CASE kind[e] = "task" \/ ~answered -> response
                         [] kind[e] # "task" /\ answered /\ Writable(e) -> Shown(w, "DONE")
                         [] OTHER -> Begun(e)
        /\ UNCHANGED <<kind, claimVars, output, sends, suspended, suspensions>>

FinishFailed(w) ==
    /\ RunnerAt(w, "closing") /\ GoIdle(w)
    /\ exec' = IF HoldsClaim(w) THEN [exec EXCEPT ![runner[w].work] = "FAILED"] ELSE exec
    /\ UNCHANGED <<kind, fencing, holder, expired, output, response, sends, suspended, suspensions>>

RunnerDies(w) ==
    /\ ~RunnerAt(w, "idle") /\ GoIdle(w)
    /\ UNCHANGED <<kind, claimVars, output, response, sends, suspended, suspensions>>

(***************************************************************************)
(* Operators.                                                              *)
(***************************************************************************)
CancelExecution(e) ==
    /\ exec[e] \in Unfinished /\ Terminated({e}, "CANCELLED")
    /\ output' = [output EXCEPT ![e] = 0]
    /\ UNCHANGED <<kind, response, sends, runner, suspended, suspensions>>

\* set_control: the Agent is quarantined or disabled, and may be restored.
SuspendAgent ==
    /\ suspensions < SuspendBound /\ suspensions' = suspensions + 1
    /\ suspended' = TRUE
    /\ Terminated({e \in Executions : exec[e] \in Unfinished}, "FAILED")
    /\ UNCHANGED <<kind, output, response, sends, runner>>

RestoreAgent ==
    /\ suspended /\ suspended' = FALSE
    /\ UNCHANGED <<kind, claimVars, output, response, sends, runner, suspensions>>

ExecutionNext ==
    \/ \E e \in Executions :
          \/ \E input \in Kinds : QueueExecution(e, input)
          \/ ExpireClaim(e) \/ CancelExecution(e)
    \/ \E w \in Runners :
          \/ \E e \in Executions : Reconcile(w, e) \/ Candidate(w, e)
          \/ \E ok \in BOOLEAN : Admit(w, ok) \/ ReportFailure(w, ok)
          \/ ClaimExecution(w) \/ MissCandidate(w)
          \/ CheckClaim(w) \/ CallProvider(w) \/ ProviderAnswers(w) \/ ProviderFails(w)
          \/ CheckPublication(w) \/ Publish(w) \/ FinishCompleted(w)
          \/ FinishFailed(w) \/ RunnerDies(w)
    \/ SuspendAgent \/ RestoreAgent

ExecutionSpec == ExecutionInit /\ [][ExecutionNext]_executionVars

(***************************************************************************)
(* Correctness.                                                            *)
(***************************************************************************)
ExecutionTypeOK ==
    /\ kind \in [Executions -> Kinds \cup {"NONE"}]
    /\ exec \in [Executions -> ExecutionStatus] /\ fencing \in [Executions -> Nat]
    /\ holder \in [Executions -> Runners \cup {Nobody}]
    /\ expired \in [Executions -> BOOLEAN] /\ output \in [Executions -> Nat]
    /\ response \in [Executions -> [state : {"NONE", "STREAMING", "DONE"}, by : Nat]]
    /\ sends \in [Executions -> SUBSET Nat]
    /\ runner \in [Runners -> [at : RunnerStages, work : Executions \cup {Nobody}, token : Nat]]
    /\ suspended \in BOOLEAN /\ suspensions \in 0..SuspendBound

\* Claims of an execution are fenced: each has a larger token than the last, and
\* only the latest can record an output, once, whoever expires, reconciles,
\* cancels, suspends or drains.
ExecutionLease == INSTANCE FencedLease WITH
    Resources <- Executions, token <- fencing,
    held <- [e \in Executions |-> exec[e] = "CLAIMED"],
    won <- [e \in Executions |-> IF output[e] = 0 THEN {} ELSE {output[e]}]
ExecutionsAreFenced == ExecutionLease!Spec

\* An execution that ended stays as it ended, its output too, and a text that
\* was shown in the Channel is not replaced any more by a claim that was stopped.
EndedExecutionRests ==
    [][\A e \in Executions : exec[e] \in ExecutionEnds =>
          /\ exec'[e] = exec[e] /\ output'[e] = output[e]
          /\ response'[e] = response[e]
             \/ (response[e] = NoAnswer /\ response'[e] = Placeholder)]_executionVars

(***************************************************************************)
(* What reconcile_expired_runtime's documentation says, and the code does  *)
(* not keep: its run shows a counterexample.                               *)
(***************************************************************************)

\* An attempt whose lease expired is never reclaimed as a new send: at most one
\* claim of an execution calls the provider.
NeverResent == \A e \in Executions : Cardinality(sends[e]) <= 1
===============================================================================
