---------------------------- MODULE ExecutionJobs ----------------------------
(***************************************************************************)
(* The execution control plane of src/scripts/lib/execution_control.py:    *)
(* durable jobs that wait for an approval, are claimed by worker processes *)
(* under a lease, and end.                                                 *)
(*                                                                         *)
(* Every statement of that file commits on its own (connection.execute), so *)
(* one action is one statement: claim_job, fail_job and run_worker_once    *)
(* interleave between their statements, and a process may die between them. *)
(***************************************************************************)
EXTENDS Integers, FiniteSets

CONSTANTS
    Jobs,          \* jobs, told apart by their idempotency key
    NoJob,         \* what an idle worker has
    Workers,       \* processes that call run_worker_once
    NeedsApproval, \* jobs enqueued with requires_approval
    MaxAttempts,   \* MAX_ATTEMPTS of each job
    Cancellable,   \* jobs an operator may cancel
    Crashes        \* worker processes may die

ASSUME JobAssumption ==
    /\ NoJob \notin Jobs
    /\ NeedsApproval \subseteq Jobs /\ Cancellable \subseteq Jobs
    /\ MaxAttempts \in [Jobs -> Nat \ {0}]
    /\ Crashes \in BOOLEAN

VARIABLES
    status,        \* EXECUTION_JOBS.STATUS, NONE before enqueue_job
    cancel,        \* CANCEL_REQUESTED
    count,         \* ATTEMPT_COUNT
    token,         \* LEASE_TOKEN: the claim that issued it, 0 for NULL
    lapsed,        \* LEASE_UNTIL is in the past
    rows,          \* the job's EXECUTION_ATTEMPTS
    worker         \* what each worker process is doing

vars == <<status, cancel, count, token, lapsed, rows, worker>>

Ended == {"SUCCEEDED", "FAILED", "CANCELLED", "REJECTED"}
Waiting == {"PENDING", "RETRY"}
JobStatus == {"NONE", "WAITING_APPROVAL", "RUNNING"} \cup Waiting \cup Ended

\* The stages of run_worker_once: a candidate selected, claimed, its attempt
\* recorded, the job read back and executing, fail_job's read done, the outcome
\* written and the attempt still to be closed.
Stages == {"selected", "claimed", "recorded", "executing", "failing", "closing"}
Outcomes == {"none", "SUCCEEDED", "FAILED", "RETRY"}
AttemptRow == [number : Nat, token : Nat, status : Outcomes \cup {"RUNNING"}]

\* own is the token claim_job generated, held the one get_job then returned.
Idle == [stage |-> "idle", job |-> NoJob, own |-> 0, held |-> 0, outcome |-> "none"]
Busy == [stage : Stages, job : Jobs, own : Nat, held : Nat, outcome : Outcomes]

Init ==
    /\ status = [j \in Jobs |-> "NONE"]
    /\ cancel = [j \in Jobs |-> FALSE]
    /\ count = [j \in Jobs |-> 0]
    /\ token = [j \in Jobs |-> 0]
    /\ lapsed = [j \in Jobs |-> FALSE]
    /\ rows = [j \in Jobs |-> {}]
    /\ worker = [w \in Workers |-> Idle]

(***************************************************************************)
(* enqueue_job, decide_job and cancel_job.                                 *)
(***************************************************************************)

\* A second call with the same key finds the job and changes nothing.
Enqueue(j) ==
    /\ status[j] = "NONE"
    /\ status' = [status EXCEPT ![j] = IF j \in NeedsApproval THEN "WAITING_APPROVAL"
                                       ELSE "PENDING"]
    /\ UNCHANGED <<cancel, count, token, lapsed, rows, worker>>

\* Mutant: the decision applies to a job in any state.
DecidableAlways(j) == status[j] # "NONE"

Decidable(j) == status[j] = "WAITING_APPROVAL"

Decide(j, approved) ==
    /\ Decidable(j)
    /\ status' = [status EXCEPT ![j] = IF approved THEN "PENDING" ELSE "REJECTED"]
    /\ UNCHANGED <<cancel, count, token, lapsed, rows, worker>>

Cancel(j) ==
    /\ j \in Cancellable /\ status[j] \notin Ended \cup {"NONE"}
    /\ cancel' = [cancel EXCEPT ![j] = TRUE]
    /\ status' = [status EXCEPT ![j] = IF @ = "RUNNING" THEN @ ELSE "CANCELLED"]
    /\ UNCHANGED <<count, token, lapsed, rows, worker>>

(***************************************************************************)
(* claim_job.                                                              *)
(***************************************************************************)
Lapse(j) ==
    /\ status[j] = "RUNNING" /\ ~lapsed[j]
    /\ lapsed' = [lapsed EXCEPT ![j] = TRUE]
    /\ UNCHANGED <<status, cancel, count, token, rows, worker>>

\* Mutant: the attempts are not counted.
ExpiredAlways(j) == status[j] = "RUNNING" /\ lapsed[j] /\ ~cancel[j]

\* Its first statement gives the jobs of expired leases back.
Expired(j) ==
    /\ status[j] = "RUNNING" /\ lapsed[j]
    /\ ~cancel[j] /\ count[j] < MaxAttempts[j]

Sweep ==
    /\ \E j \in Jobs : Expired(j)
    /\ status' = [j \in Jobs |-> IF Expired(j) THEN "RETRY" ELSE status[j]]
    /\ token' = [j \in Jobs |-> IF Expired(j) THEN 0 ELSE token[j]]
    /\ lapsed' = [j \in Jobs |-> lapsed[j] /\ ~Expired(j)]
    /\ UNCHANGED <<cancel, count, rows, worker>>

\* The candidate query.
Select(w, j) ==
    /\ worker[w].stage = "idle"
    /\ status[j] \in Waiting /\ ~cancel[j] /\ count[j] < MaxAttempts[j]
    /\ worker' = [worker EXCEPT ![w] = [Idle EXCEPT !.stage = "selected", !.job = j]]
    /\ UNCHANGED <<status, cancel, count, token, lapsed, rows>>

\* The conditional update that takes the job: it checks the status and the
\* cancellation again, but not the number of attempts.
Claimable(j) == status[j] \in Waiting /\ ~cancel[j]

Claim(w) ==
    LET j == worker[w].job
    IN  /\ worker[w].stage = "selected" /\ Claimable(j)
        /\ status' = [status EXCEPT ![j] = "RUNNING"]
        /\ count' = [count EXCEPT ![j] = @ + 1]
        /\ token' = [token EXCEPT ![j] = count[j] + 1]
        /\ lapsed' = [lapsed EXCEPT ![j] = FALSE]
        /\ worker' = [worker EXCEPT ![w].stage = "claimed", ![w].own = count[j] + 1]
        /\ UNCHANGED <<cancel, rows>>

LoseCandidate(w) ==
    /\ worker[w].stage = "selected" /\ ~Claimable(worker[w].job)
    /\ worker' = [worker EXCEPT ![w] = Idle]
    /\ UNCHANGED <<status, cancel, count, token, lapsed, rows>>

\* The attempt is numbered by the count the job has by now; the number is
\* unique per job, and a second insert of it fails the call.
Record(w) ==
    LET j == worker[w].job
        free == \A r \in rows[j] : r.number # count[j]
    IN  /\ worker[w].stage = "claimed"
        /\ rows' = [rows EXCEPT ![j] = IF free
                       THEN @ \cup {[number |-> count[j], token |-> worker[w].own, status |-> "RUNNING"]}
                       ELSE @]
        /\ worker' = [worker EXCEPT ![w] = IF free THEN [@ EXCEPT !.stage = "recorded"] ELSE Idle]
        /\ UNCHANGED <<status, cancel, count, token, lapsed>>

\* get_job: the job is read again, with whatever token it has by now.
Fetch(w) ==
    /\ worker[w].stage = "recorded"
    /\ worker' = [worker EXCEPT ![w].stage = "executing", ![w].held = token[worker[w].job]]
    /\ UNCHANGED <<status, cancel, count, token, lapsed, rows>>

(***************************************************************************)
(* The worker: renew_lease, complete_job and fail_job.                     *)
(***************************************************************************)

\* The job is RUNNING under the token the worker presents.
Holds(w) ==
    LET j == worker[w].job
    IN  status[j] = "RUNNING" /\ token[j] = worker[w].held

\* Mutants: completion looks at the token only, or at the job only.
CompletableCancelled(w) == Holds(w)
CompletableEnded(w) == status[worker[w].job] \notin {"NONE", "WAITING_APPROVAL"}

Completable(w) == Holds(w) /\ ~cancel[worker[w].job]

Renew(w) ==
    LET j == worker[w].job
    IN  /\ worker[w].stage = "executing" /\ Completable(w) /\ lapsed[j]
        /\ lapsed' = [lapsed EXCEPT ![j] = FALSE]
        /\ UNCHANGED <<status, cancel, count, token, rows, worker>>

\* The job ends or waits for its next attempt, and its lease is cleared.
Settle(w, outcome) ==
    LET j == worker[w].job
    IN  /\ status' = [status EXCEPT ![j] = outcome]
        /\ token' = [token EXCEPT ![j] = 0]
        /\ lapsed' = [lapsed EXCEPT ![j] = FALSE]
        /\ worker' = [worker EXCEPT ![w].stage = "closing", ![w].outcome = outcome]
        /\ UNCHANGED <<cancel, count, rows>>

\* Mutant: the worker keeps the job and the token it was refused.
RefusedUncleared(w) ==
    /\ worker' = [worker EXCEPT ![w].stage = "idle"]
    /\ UNCHANGED <<status, cancel, count, token, lapsed, rows>>

\* A call that affects no row returns False, and the worker moves on.
Refused(w) ==
    /\ worker' = [worker EXCEPT ![w] = Idle]
    /\ UNCHANGED <<status, cancel, count, token, lapsed, rows>>

Complete(w) ==
    /\ worker[w].stage = "executing"
    /\ IF Completable(w) THEN Settle(w, "SUCCEEDED") ELSE Refused(w)

\* Mutant: one retry too many.
AfterFailureOffByOne(j) == IF count[j] <= MaxAttempts[j] THEN "RETRY" ELSE "FAILED"

AfterFailure(j) == IF count[j] < MaxAttempts[j] THEN "RETRY" ELSE "FAILED"

\* fail_job reads the job, decides on a retry, and then updates it.
ReadFail(w) ==
    LET j == worker[w].job
    IN  /\ worker[w].stage = "executing"
        /\ IF Holds(w)
           THEN /\ worker' = [worker EXCEPT ![w].stage = "failing",
                                              ![w].outcome = AfterFailure(j)]
                /\ UNCHANGED <<status, cancel, count, token, lapsed, rows>>
           ELSE Refused(w)

Fail(w) ==
    /\ worker[w].stage = "failing"
    /\ IF Holds(w) THEN Settle(w, worker[w].outcome) ELSE Refused(w)

\* _finish_attempt: the RUNNING row of the worker's token takes the outcome.
Closed(w, r) ==
    IF r.token = worker[w].held /\ r.status = "RUNNING"
    THEN [r EXCEPT !.status = worker[w].outcome] ELSE r

Close(w) ==
    LET j == worker[w].job
    IN  /\ worker[w].stage = "closing"
        /\ rows' = [rows EXCEPT ![j] = {Closed(w, r) : r \in @}]
        /\ worker' = [worker EXCEPT ![w] = Idle]
        /\ UNCHANGED <<status, cancel, count, token, lapsed>>

\* The process dies and is started again; the job keeps its row.
Crash(w) ==
    /\ Crashes /\ worker[w].stage # "idle"
    /\ worker' = [worker EXCEPT ![w] = Idle]
    /\ UNCHANGED <<status, cancel, count, token, lapsed, rows>>

Work(w) ==
    \/ Claim(w) \/ LoseCandidate(w) \/ Record(w) \/ Fetch(w)
    \/ Complete(w) \/ ReadFail(w) \/ Fail(w) \/ Close(w)

Next ==
    \/ \E j \in Jobs : \/ Enqueue(j) \/ Cancel(j) \/ Lapse(j)
                       \/ \E approved \in BOOLEAN : Decide(j, approved)
    \/ Sweep
    \/ \E w \in Workers : \/ \E j \in Jobs : Select(w, j)
                          \/ Work(w) \/ Renew(w) \/ Crash(w)

Spec == Init /\ [][Next]_vars

\* Someone keeps calling run_worker_once, and what it executes has a timeout:
\* claim_job sweeps, candidates are selected, and a worker process that is
\* started again and again does not die before each of its statements for ever.
\* Operators owe nothing.
LiveSpec ==
    /\ Spec
    /\ WF_vars(Sweep)
    /\ \A j \in Jobs : WF_vars(Lapse(j)) /\ WF_vars(\E w \in Workers : Select(w, j))
    /\ \A w \in Workers : SF_vars(Work(w))

(***************************************************************************)
(* Correctness.                                                            *)
(***************************************************************************)
TypeOK ==
    /\ status \in [Jobs -> JobStatus] /\ cancel \in [Jobs -> BOOLEAN]
    /\ count \in [Jobs -> Nat] /\ token \in [Jobs -> Nat]
    /\ lapsed \in [Jobs -> BOOLEAN]
    /\ rows \in [Jobs -> SUBSET AttemptRow]
    /\ worker \in [Workers -> Busy \cup {Idle}]

\* A job is never claimed more often than MAX_ATTEMPTS allows, although the
\* update that claims it does not look at the count: a job that waits for a
\* claim always has an attempt left, whichever stale candidate is tried.
AttemptLeft == \A j \in Jobs : status[j] \in Waiting => count[j] < MaxAttempts[j]
AttemptsBounded == \A j \in Jobs : count[j] <= MaxAttempts[j]

\* What keeps AttemptsBounded true: the lease of a running job is the claim its
\* count counts, and a worker retries only what it read below the limit.
LeaseIsLatest == \A j \in Jobs : status[j] = "RUNNING" => token[j] = count[j]
RetryLeft ==
    \A w \in Workers : worker[w].stage = "failing" /\ worker[w].outcome = "RETRY"
        => worker[w].held < MaxAttempts[worker[w].job]

AttemptInv == AttemptsBounded /\ AttemptLeft /\ LeaseIsLatest /\ RetryLeft

\* A job that ended stays as it ended: late completions, failures, decisions
\* and cancellations of it change nothing.
OutcomeStep == \A j \in Jobs : status[j] \in Ended => status'[j] = status[j]
OutcomeIsFinal == [][OutcomeStep]_vars

\* Once cancel_job was accepted no worker starts the job and no result of it is
\* recorded, whatever claim or completion is under way.
CancelStep ==
    \A j \in Jobs : cancel[j] => /\ cancel'[j]
                                 /\ status'[j] = "SUCCEEDED" => status[j] = "SUCCEEDED"
                                 /\ status'[j] = "RUNNING" => status[j] = "RUNNING"
CancelHolds == [][CancelStep]_vars

\* A job that still waits for its approval, or was refused it, was never
\* claimed: no attempt, no token, no worker that could hold it.
NothingRunsUnapproved ==
    \A j \in Jobs : status[j] \in {"NONE", "WAITING_APPROVAL", "REJECTED"} =>
        /\ count[j] = 0 /\ token[j] = 0 /\ rows[j] = {}
        /\ \A w \in Workers : worker[w].job # j

\* A completed claim is the job's last: the row of the attempt that closes as
\* SUCCEEDED belongs to a job that SUCCEEDED, and there is one of them.
OneSuccess ==
    \A j \in Jobs : \A r, s \in rows[j] :
        r.status = "SUCCEEDED" => /\ status[j] = "SUCCEEDED"
                                  /\ s.status = "SUCCEEDED" => r = s

\* Left for good: nobody works on the job, the sweep gives back neither a job
\* whose attempts are used up nor one that shall be cancelled, and a failure
\* reported after the cancellation leaves a RETRY that is no candidate.
Abandoned(j) ==
    /\ \A w \in Workers : worker[w].job # j
    /\ \/ status[j] = "RUNNING" /\ lapsed[j] /\ (cancel[j] \/ count[j] = MaxAttempts[j])
       \/ status[j] = "RETRY" /\ cancel[j]

\* Whatever leases lapse and workers die, a job that was approved ends, unless
\* its last attempt went unreported or the attempt that was to be cancelled failed.
JobsEnd == \A j \in Jobs : status[j] = "PENDING" ~> status[j] \in Ended \/ Abandoned(j)

(***************************************************************************)
(* What docs/architecture.md says, and the code does not keep: its run     *)
(* shows a counterexample.                                                 *)
(***************************************************************************)

\* A completion is accepted only from the claim that holds the lease.
CompletionByClaimant ==
    [][\A w \in Workers : (worker[w].stage = "executing" /\ worker'[w].stage = "closing")
          => worker[w].own = token[worker[w].job]]_vars
==============================================================================
