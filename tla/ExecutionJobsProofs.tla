------------------------- MODULE ExecutionJobsProofs -------------------------
(***************************************************************************)
(* Proofs about ExecutionJobs, for any jobs, workers and attempt limits.   *)
(***************************************************************************)
EXTENDS ExecutionJobs, TLAPS

USE DEF Ended, Waiting, JobStatus, Stages, Outcomes, Idle, Busy

\* What fail_job decided between its two statements, and what an outcome can be
\* by the stage the worker has reached.
OutcomeKnown ==
    \A w \in Workers :
        /\ worker[w].stage = "failing" => worker[w].outcome \in {"RETRY", "FAILED"}
        /\ worker[w].stage = "closing" => worker[w].outcome \in {"SUCCEEDED", "RETRY", "FAILED"}

Typed == TypeOK /\ OutcomeKnown

\* The initial state has the types of TypeOK.
LEMMA InitTyped == ASSUME Init PROVE Typed
BY JobAssumption DEF Init, Typed, TypeOK, OutcomeKnown

\* Every step of a worker keeps the types of the job's columns and of its own
\* call.
LEMMA WorkTyped ==
    ASSUME Typed, NEW w \in Workers, Work(w) \/ Renew(w) \/ Crash(w)
    PROVE  Typed'
<1> DEFINE j == worker[w].job
<1> USE DEF Typed, TypeOK, OutcomeKnown
<1>a. worker[w] \in Busy \/ worker[w] = Idle
  OBVIOUS
<1>b. worker[w].stage # "idle" => worker[w] \in Busy
  BY <1>a
<1>1. CASE Claim(w)
  <2>1. worker[w] \in Busy /\ j \in Jobs
    BY <1>1, <1>b DEF Claim
  <2> DEFINE next == count[j] + 1
  <2>a. next \in Nat
    BY <2>1
  <2>b. worker' = [worker EXCEPT ![w].stage = "claimed", ![w].own = next]
    BY <1>1 DEF Claim
  <2>2. /\ worker' \in [Workers -> Busy \cup {Idle}]
        /\ worker'[w].stage = "claimed" /\ \A v \in Workers \ {w} : worker'[v] = worker[v]
    <3> HIDE DEF next
    <3>1. [worker[w] EXCEPT !.stage = "claimed", !.own = next] \in Busy
      BY <2>1, <2>a
    <3> QED BY <2>1, <2>b, <3>1
  <2>3. /\ status' = [status EXCEPT ![j] = "RUNNING"]
        /\ count' = [count EXCEPT ![j] = count[j] + 1]
        /\ token' = [token EXCEPT ![j] = count[j] + 1]
        /\ lapsed' = [lapsed EXCEPT ![j] = FALSE]
        /\ UNCHANGED <<cancel, rows>>
    BY <1>1 DEF Claim
  <2>5. status' \in [Jobs -> JobStatus] /\ count' \in [Jobs -> Nat]
    BY <2>1, <2>3
  <2>6. token' \in [Jobs -> Nat] /\ lapsed' \in [Jobs -> BOOLEAN]
    BY <2>1, <2>3
  <2>7. OutcomeKnown'
    BY <2>2
  <2> QED BY <2>2, <2>3, <2>5, <2>6, <2>7
<1>2. CASE LoseCandidate(w)
  BY <1>2 DEF LoseCandidate
<1>3. CASE Record(w)
  <2>1. worker[w] \in Busy /\ j \in Jobs /\ rows[j] \in SUBSET AttemptRow
    BY <1>3, <1>b DEF Record
  <2> DEFINE row == [number |-> count[j], token |-> worker[w].own, status |-> "RUNNING"]
  <2>2. row \in AttemptRow
    BY <2>1 DEF AttemptRow
  <2>3. [worker[w] EXCEPT !.stage = "recorded"] \in Busy
    BY <2>1
  <2>4. rows' = [rows EXCEPT ![j] = rows[j] \cup {row}] \/ rows' = [rows EXCEPT ![j] = rows[j]]
    BY <1>3, Zenon DEF Record
  <2>5. rows' \in [Jobs -> SUBSET AttemptRow]
    <3> HIDE DEF row
    <3>1. rows[j] \cup {row} \in SUBSET AttemptRow
      BY <2>1, <2>2
    <3> QED BY <2>1, <2>4, <3>1
  <2>6. /\ \/ worker' = [worker EXCEPT ![w] = [worker[w] EXCEPT !.stage = "recorded"]]
           \/ worker' = [worker EXCEPT ![w] = Idle]
        /\ UNCHANGED <<status, cancel, count, token, lapsed>>
    BY <1>3, Zenon DEF Record
  <2> QED BY <2>3, <2>5, <2>6
<1>4. CASE Fetch(w)
  <2>1. worker[w] \in Busy /\ j \in Jobs
    BY <1>4, <1>b DEF Fetch
  <2>2. [worker[w] EXCEPT !.stage = "executing", !.held = token[j]] \in Busy
    BY <2>1
  <2> QED BY <1>4, <2>2 DEF Fetch
<1>5. ASSUME NEW o \in {"SUCCEEDED", "RETRY", "FAILED"}, Settle(w, o), worker[w].stage # "idle"
      PROVE  Typed'
  <2>1. worker[w] \in Busy /\ j \in Jobs
    BY <1>5, <1>b
  <2>2. [worker[w] EXCEPT !.stage = "closing", !.outcome = o] \in Busy
    BY <2>1
  <2> QED BY <1>5, <2>1, <2>2 DEF Settle
<1>6. ASSUME Refused(w) PROVE Typed'
  BY <1>6 DEF Refused
<1>7. CASE Complete(w)
  BY <1>5, <1>6, <1>7 DEF Complete
<1>8. CASE ReadFail(w)
  <2>1. worker[w] \in Busy /\ j \in Jobs /\ AfterFailure(j) \in {"RETRY", "FAILED"}
    BY <1>8, <1>b DEF ReadFail, AfterFailure
  <2>2. [worker[w] EXCEPT !.stage = "failing", !.outcome = AfterFailure(j)] \in Busy
    BY <2>1
  <2> QED BY <1>6, <1>8, <2>1, <2>2 DEF ReadFail
<1>9. CASE Fail(w)
  BY <1>5, <1>6, <1>9 DEF Fail
<1>10. CASE Close(w)
  <2>1. worker[w] \in Busy /\ j \in Jobs /\ rows[j] \in SUBSET AttemptRow
    BY <1>10, <1>b DEF Close
  <2>2. ASSUME NEW r \in AttemptRow PROVE Closed(w, r) \in AttemptRow
    BY <2>1 DEF Closed, AttemptRow
  <2> DEFINE X == {Closed(w, r) : r \in rows[j]}
  <2>3. X \in SUBSET AttemptRow
    BY <2>1, <2>2
  <2>4. rows' = [rows EXCEPT ![j] = X]
    BY <1>10, Zenon DEF Close
  <2>5. rows' \in [Jobs -> SUBSET AttemptRow]
    <3> HIDE DEF X
    <3> QED BY <2>1, <2>3, <2>4
  <2>6. /\ worker' = [worker EXCEPT ![w] = Idle]
        /\ UNCHANGED <<status, cancel, count, token, lapsed>>
    BY <1>10, Zenon DEF Close
  <2> QED BY <2>5, <2>6
<1>11. CASE Renew(w)
  BY <1>11, <1>b DEF Renew
<1>12. CASE Crash(w)
  BY <1>12 DEF Crash
<1> QED BY <1>1, <1>2, <1>3, <1>4, <1>7, <1>8, <1>9, <1>10, <1>11, <1>12 DEF Work

\* Every step keeps the types.
LEMMA StepTyped == ASSUME Typed, [Next]_vars PROVE Typed'
<1>1. ASSUME NEW j \in Jobs, Enqueue(j) \/ Cancel(j) \/ Lapse(j) PROVE Typed'
  BY <1>1 DEF Typed, TypeOK, OutcomeKnown, Enqueue, Cancel, Lapse
<1>2. ASSUME NEW j \in Jobs, NEW approved \in BOOLEAN, Decide(j, approved) PROVE Typed'
  BY <1>2 DEF Typed, TypeOK, OutcomeKnown, Decide
<1>3. CASE Sweep
  <2>1. status' \in [Jobs -> JobStatus] /\ token' \in [Jobs -> Nat]
    BY <1>3 DEF Typed, TypeOK, Sweep
  <2>2. lapsed' \in [Jobs -> BOOLEAN]
    BY <1>3 DEF Typed, TypeOK, Sweep
  <2> QED BY <1>3, <2>1, <2>2 DEF Typed, TypeOK, OutcomeKnown, Sweep
<1>4. ASSUME NEW w \in Workers, NEW j \in Jobs, Select(w, j) PROVE Typed'
  BY <1>4 DEF Typed, TypeOK, OutcomeKnown, Select
<1>5. CASE UNCHANGED vars
  BY <1>5 DEF Typed, TypeOK, OutcomeKnown, vars
<1> QED BY <1>1, <1>2, <1>3, <1>4, <1>5, WorkTyped DEF Next

\* The state of the execution control plane always has its types: no statement
\* order of claim_job, fail_job and run_worker_once leaves a column or a call
\* with a value the others do not expect.
THEOREM TypeCorrect == Spec => []TypeOK
<1>1. Init => Typed
  BY InitTyped
<1>2. Typed /\ [Next]_vars => Typed'
  BY StepTyped
<1>3. Typed => TypeOK
  BY DEF Typed
<1> QED BY <1>1, <1>2, <1>3, PTL DEF Spec

(***************************************************************************)
(* Approval: before its approval a job is not touched by the workers.      *)
(***************************************************************************)
\* Every step keeps NothingRunsUnapproved, given the types.
LEMMA UnapprovedInStep ==
    ASSUME Typed, NothingRunsUnapproved, [Next]_vars
    PROVE  NothingRunsUnapproved'
<1> USE DEF NothingRunsUnapproved, Typed, TypeOK, OutcomeKnown
<1>1. ASSUME NEW j \in Jobs, Enqueue(j) \/ Cancel(j) \/ Lapse(j)
      PROVE  NothingRunsUnapproved'
  BY <1>1 DEF Enqueue, Cancel, Lapse
<1>2. ASSUME NEW j \in Jobs, NEW approved \in BOOLEAN, Decide(j, approved)
      PROVE  NothingRunsUnapproved'
  BY <1>2 DEF Decide, Decidable
<1>3. CASE Sweep
  BY <1>3 DEF Sweep, Expired
<1>4. ASSUME NEW w \in Workers, NEW j \in Jobs, Select(w, j) PROVE NothingRunsUnapproved'
  BY <1>4 DEF Select
<1>5. ASSUME NEW w \in Workers, Work(w) \/ Renew(w) \/ Crash(w)
      PROVE  NothingRunsUnapproved'
  <2> DEFINE k == worker[w].job
  <2>1. ASSUME worker[w].stage # "idle"
        PROVE  k \in Jobs /\ status[k] \notin {"NONE", "WAITING_APPROVAL", "REJECTED"}
    BY <2>1
  <2>2. worker' \in [Workers -> Busy \cup {Idle}]
    BY <1>5, StepTyped DEF Next
  <2>3. \A v \in Workers : worker'[v].job \in {worker[v].job, NoJob}
    <3>1. CASE Claim(w)
      BY <3>1 DEF Claim
    <3>2. CASE Record(w) \/ Fetch(w) \/ Renew(w) \/ LoseCandidate(w) \/ Close(w) \/ Crash(w)
      BY <3>2 DEF Record, Fetch, Renew, LoseCandidate, Close, Crash
    <3>3. CASE Complete(w) \/ ReadFail(w) \/ Fail(w)
      BY <3>3 DEF Complete, ReadFail, Fail, Settle, Refused
    <3> QED BY <1>5, <3>1, <3>2, <3>3 DEF Work
  <2>4. \A j \in Jobs : j # k => /\ status'[j] = status[j] /\ count'[j] = count[j]
                                 /\ token'[j] = token[j] /\ rows'[j] = rows[j]
    <3>1. CASE Claim(w) \/ Record(w) \/ Fetch(w) \/ Renew(w) \/ LoseCandidate(w)
      BY <3>1 DEF Claim, Record, Fetch, Renew, LoseCandidate
    <3>2. CASE Close(w) \/ Crash(w)
      BY <3>2 DEF Close, Crash
    <3>3. CASE Complete(w) \/ ReadFail(w) \/ Fail(w)
      BY <3>3 DEF Complete, ReadFail, Fail, Settle, Refused
    <3> QED BY <1>5, <3>1, <3>2, <3>3 DEF Work
  <2>5. worker[w].stage # "idle" => status'[k] \notin {"NONE", "WAITING_APPROVAL", "REJECTED"}
    <3>1. CASE Claim(w) \/ Record(w) \/ Fetch(w) \/ Renew(w) \/ LoseCandidate(w)
      BY <2>1, <3>1 DEF Claim, Record, Fetch, Renew, LoseCandidate
    <3>2. CASE Close(w) \/ Crash(w)
      BY <2>1, <3>2 DEF Close, Crash
    <3>3. CASE Complete(w) \/ ReadFail(w) \/ Fail(w)
      BY <2>1, <3>3 DEF Complete, ReadFail, Fail, Settle, Refused
    <3> QED BY <1>5, <3>1, <3>2, <3>3 DEF Work
  <2>6. worker[w].stage # "idle"
    BY <1>5 DEF Work, Claim, Record, Fetch, Renew, LoseCandidate, Close, Crash, Complete,
                ReadFail, Fail
  <2>7. \A j \in Jobs : status'[j] \in {"NONE", "WAITING_APPROVAL", "REJECTED"} => j # k
    BY <2>5, <2>6
  <2>8. NoJob \notin Jobs
    BY JobAssumption
  <2> QED BY <2>3, <2>4, <2>7, <2>8
<1>6. CASE UNCHANGED vars
  BY <1>6 DEF vars
<1> QED BY <1>1, <1>2, <1>3, <1>4, <1>5, <1>6 DEF Next

\* No worker ever holds, claims or records an attempt of a job that waits for
\* its approval or was refused it, whatever decide_job and cancel_job meet.
THEOREM ApprovalComesFirst == Spec => []NothingRunsUnapproved
<1>1. Init => Typed /\ NothingRunsUnapproved
  BY InitTyped, JobAssumption DEF Init, NothingRunsUnapproved
<1>2. Typed /\ NothingRunsUnapproved /\ [Next]_vars => (Typed /\ NothingRunsUnapproved)'
  BY StepTyped, UnapprovedInStep
<1> QED BY <1>1, <1>2, PTL DEF Spec

(***************************************************************************)
(* Attempts: the update that claims a job does not look at the count.      *)
(***************************************************************************)
\* Every step keeps AttemptInv: the four parts hold one another up.
LEMMA AttemptsInStep ==
    ASSUME Typed, NothingRunsUnapproved, AttemptInv, [Next]_vars
    PROVE  AttemptInv'
<1> USE DEF Typed, TypeOK, OutcomeKnown, AttemptInv, AttemptsBounded, AttemptLeft,
            LeaseIsLatest, RetryLeft
<1>m. MaxAttempts \in [Jobs -> Nat \ {0}] /\ NoJob \notin Jobs
  BY JobAssumption
<1>1. ASSUME NEW j \in Jobs, Enqueue(j) \/ Cancel(j) \/ Lapse(j) PROVE AttemptInv'
  <2>1. CASE Enqueue(j)
    BY <1>m, <2>1 DEF Enqueue, NothingRunsUnapproved
  <2>2. CASE Cancel(j)
    BY <2>2 DEF Cancel
  <2>3. CASE Lapse(j)
    BY <2>3 DEF Lapse
  <2> QED BY <1>1, <2>1, <2>2, <2>3
<1>2. ASSUME NEW j \in Jobs, NEW approved \in BOOLEAN, Decide(j, approved)
      PROVE  AttemptInv'
  <2>1. status[j] = "WAITING_APPROVAL" /\ count[j] = 0
    BY <1>2 DEF Decide, Decidable, NothingRunsUnapproved
  <2>2. count[j] < MaxAttempts[j]
    BY <2>1, <1>m
  <2>3. /\ \A i \in Jobs \ {j} : status'[i] = status[i]
        /\ status'[j] \in {"PENDING", "REJECTED"}
        /\ UNCHANGED <<count, token, worker>>
    BY <1>2 DEF Decide
  <2> QED BY <2>2, <2>3
<1>3. CASE Sweep
  BY <1>3, <1>m DEF Sweep, Expired
<1>4. ASSUME NEW w \in Workers, NEW j \in Jobs, Select(w, j) PROVE AttemptInv'
  BY <1>4 DEF Select
<1>5. ASSUME NEW w \in Workers, Work(w) \/ Renew(w) \/ Crash(w) PROVE AttemptInv'
  <2> DEFINE k == worker[w].job
  <2>a. worker[w].stage # "idle" => k \in Jobs /\ worker[w] \in Busy
    OBVIOUS
  <2>1. CASE Claim(w)
    <3>1. k \in Jobs /\ status[k] \in Waiting /\ count[k] < MaxAttempts[k]
      BY <2>1, <2>a DEF Claim, Claimable
    <3>2. /\ count' = [count EXCEPT ![k] = count[k] + 1]
          /\ token' = [token EXCEPT ![k] = count[k] + 1]
          /\ status' = [status EXCEPT ![k] = "RUNNING"]
      BY <2>1 DEF Claim
    <3>a. MaxAttempts[k] \in Nat /\ count[k] \in Nat
      BY <3>1, <1>m
    <3>b. count[k] + 1 <= MaxAttempts[k]
      BY <3>1, <3>a
    <3>c. \A i \in Jobs : count'[i] = IF i = k THEN count[k] + 1 ELSE count[i]
      BY <3>1, <3>2
    <3>3. AttemptsBounded'
      BY <3>b, <3>c
    <3>4. AttemptLeft' /\ LeaseIsLatest'
      BY <3>1, <3>2
    <3>5. RetryLeft'
      BY <2>1, <3>1 DEF Claim
    <3> QED BY <3>3, <3>4, <3>5
  <2>2. CASE Record(w) \/ Fetch(w) \/ LoseCandidate(w)
    BY <2>2, <2>a DEF Record, Fetch, LoseCandidate
  <2>3. CASE Renew(w) \/ Close(w) \/ Crash(w)
    BY <2>3, <2>a DEF Renew, Close, Crash
  <2>4. ASSUME Refused(w) PROVE AttemptInv'
    BY <2>4 DEF Refused
  <2>5. ASSUME NEW o \in {"SUCCEEDED", "RETRY", "FAILED"}, Settle(w, o), k \in Jobs,
               o = "RETRY" => count[k] < MaxAttempts[k]
        PROVE  AttemptInv'
    BY <2>5 DEF Settle
  <2>6. CASE Complete(w)
    BY <2>4, <2>5, <2>6, <2>a DEF Complete
  <2>7. CASE ReadFail(w)
    <3>1. CASE Holds(w)
      <4>1. k \in Jobs /\ token[k] = count[k] /\ worker[w].held = count[k]
        BY <2>7, <2>a, <3>1 DEF ReadFail, Holds
      <4>2. AfterFailure(k) = "RETRY" => worker[w].held < MaxAttempts[k]
        BY <4>1 DEF AfterFailure
      <4> QED BY <2>7, <3>1, <4>1, <4>2 DEF ReadFail
    <3>2. CASE ~Holds(w)
      BY <2>4, <2>7, <3>2 DEF ReadFail
    <3> QED BY <3>1, <3>2
  <2>8. CASE Fail(w)
    <3>1. CASE Holds(w)
      <4>1. k \in Jobs /\ worker[w].held = count[k]
        BY <2>8, <2>a, <3>1 DEF Fail, Holds
      <4>2. worker[w].outcome = "RETRY" => count[k] < MaxAttempts[k]
        BY <2>8, <4>1 DEF Fail
      <4>3. worker[w].outcome \in {"RETRY", "FAILED"} /\ Settle(w, worker[w].outcome)
        BY <2>8, <3>1 DEF Fail
      <4> QED BY <2>5, <4>1, <4>2, <4>3
    <3>2. CASE ~Holds(w)
      BY <2>4, <2>8, <3>2 DEF Fail
    <3> QED BY <3>1, <3>2
  <2> QED BY <1>5, <2>1, <2>2, <2>3, <2>6, <2>7, <2>8 DEF Work
<1>6. CASE UNCHANGED vars
  BY <1>6 DEF vars
<1> QED BY <1>1, <1>2, <1>3, <1>4, <1>5, <1>6 DEF Next

\* A job is never claimed more often than its MAX_ATTEMPTS allows, although
\* claim_job compares the count in other statements than the one that takes the
\* job, and fail_job in another than the one that gives it back.
THEOREM AttemptsWithinLimit == Spec => []AttemptsBounded
<1>1. Init => Typed /\ NothingRunsUnapproved /\ AttemptInv
  BY InitTyped, JobAssumption
  DEF Init, NothingRunsUnapproved, AttemptInv, AttemptsBounded, AttemptLeft,
      LeaseIsLatest, RetryLeft
<1>2. Typed /\ NothingRunsUnapproved /\ AttemptInv /\ [Next]_vars
        => (Typed /\ NothingRunsUnapproved /\ AttemptInv)'
  BY StepTyped, UnapprovedInStep, AttemptsInStep
<1>3. AttemptInv => AttemptsBounded
  BY DEF AttemptInv
<1> QED BY <1>1, <1>2, <1>3, PTL DEF Spec

(***************************************************************************)
(* Endings: what a job became, and what a cancellation forbids.            *)
(***************************************************************************)
\* No step changes how a job ended, or starts or completes a cancelled job.
LEMMA StepKeepsOutcome ==
    ASSUME Typed, NothingRunsUnapproved, [Next]_vars
    PROVE  OutcomeStep /\ CancelStep
<1> USE DEF Typed, TypeOK, OutcomeKnown, OutcomeStep, CancelStep
<1>1. ASSUME NEW j \in Jobs, Enqueue(j) \/ Cancel(j) \/ Lapse(j)
      PROVE  OutcomeStep /\ CancelStep
  BY <1>1 DEF Enqueue, Cancel, Lapse
<1>2. ASSUME NEW j \in Jobs, NEW approved \in BOOLEAN, Decide(j, approved)
      PROVE  OutcomeStep /\ CancelStep
  BY <1>2 DEF Decide, Decidable
<1>3. CASE Sweep
  BY <1>3 DEF Sweep, Expired
<1>4. ASSUME NEW w \in Workers, NEW j \in Jobs, Select(w, j) PROVE OutcomeStep /\ CancelStep
  BY <1>4 DEF Select
<1>5. ASSUME NEW w \in Workers, Work(w) \/ Renew(w) \/ Crash(w)
      PROVE  OutcomeStep /\ CancelStep
  <2>1. CASE Claim(w)
    BY <2>1 DEF Claim, Claimable
  <2>2. CASE Record(w) \/ Fetch(w) \/ LoseCandidate(w) \/ Renew(w) \/ Close(w) \/ Crash(w)
    BY <2>2 DEF Record, Fetch, LoseCandidate, Renew, Close, Crash
  <2>3. CASE Complete(w)
    BY <2>3 DEF Complete, Completable, Holds, Settle, Refused
  <2>4. CASE ReadFail(w)
    BY <2>4 DEF ReadFail, Refused
  <2>5. CASE Fail(w)
    BY <2>5 DEF Fail, Holds, Settle, Refused
  <2> QED BY <1>5, <2>1, <2>2, <2>3, <2>4, <2>5 DEF Work
<1>6. CASE UNCHANGED vars
  BY <1>6 DEF vars
<1> QED BY <1>1, <1>2, <1>3, <1>4, <1>5, <1>6 DEF Next

\* A job that SUCCEEDED, FAILED, was CANCELLED or REJECTED keeps that status,
\* whatever late calls of workers and operators follow.
THEOREM OutcomesAreFinal == Spec => OutcomeIsFinal
<1>1. Init => Typed /\ NothingRunsUnapproved
  BY InitTyped, JobAssumption DEF Init, NothingRunsUnapproved
<1>2. Typed /\ NothingRunsUnapproved /\ [Next]_vars => (Typed /\ NothingRunsUnapproved)'
  BY StepTyped, UnapprovedInStep
<1>3. Typed /\ NothingRunsUnapproved /\ [Next]_vars => [OutcomeStep]_vars
  BY StepKeepsOutcome
<1> QED BY <1>1, <1>2, <1>3, PTL DEF Spec, OutcomeIsFinal

\* Once cancel_job was accepted, no claim starts the job and no completion of
\* it is recorded, whichever worker had it in hand.
THEOREM CancellationHolds == Spec => CancelHolds
<1>1. Init => Typed /\ NothingRunsUnapproved
  BY InitTyped, JobAssumption DEF Init, NothingRunsUnapproved
<1>2. Typed /\ NothingRunsUnapproved /\ [Next]_vars => (Typed /\ NothingRunsUnapproved)'
  BY StepTyped, UnapprovedInStep
<1>3. Typed /\ NothingRunsUnapproved /\ [Next]_vars => [CancelStep]_vars
  BY StepKeepsOutcome
<1> QED BY <1>1, <1>2, <1>3, PTL DEF Spec, CancelHolds
(***************************************************************************)
(* One success: the row of the attempt that completed the job.             *)
(***************************************************************************)
\* Tokens tell a job's attempts apart: each was issued once, and a worker that
\* has claimed but not recorded yet owns a token that no row and no other such
\* worker has. A row is found again by its token, never by its number: the number
\* is the count the job has when the row is written.
TokensTellApart ==
    /\ \A j \in Jobs : \A r, s \in rows[j] : r.token = s.token => r = s
    /\ \A j \in Jobs : \A r \in rows[j] : r.token <= count[j]
    /\ \A w \in Workers : worker[w].stage = "claimed" =>
          /\ worker[w].own <= count[worker[w].job]
          /\ \A r \in rows[worker[w].job] : r.token # worker[w].own
          /\ \A v \in Workers : /\ worker[v].stage = "claimed"
                                /\ worker[v].job = worker[w].job
                                /\ worker[v].own = worker[w].own
                                => v = w

\* The worker that completed a job and has not closed its attempt yet.
Closing(w) == worker[w].stage = "closing" /\ worker[w].outcome = "SUCCEEDED"

\* A job that SUCCEEDED was completed by one worker: while that one still has to
\* close the attempt, no row says so, and no other worker is about to.
OneCompleter ==
    \A w \in Workers : Closing(w) =>
        /\ status[worker[w].job] = "SUCCEEDED"
        /\ \A r \in rows[worker[w].job] : r.status # "SUCCEEDED"
        /\ \A v \in Workers : Closing(v) /\ worker[v].job = worker[w].job => v = w

SuccessInv == OneSuccess /\ TokensTellApart /\ OneCompleter

\* A step that writes no row, takes back no claim and claims nothing keeps the
\* tokens apart.
LEMMA TokensStill ==
    ASSUME Typed, TokensTellApart, rows' = rows, Typed',
           \A j \in Jobs : count'[j] >= count[j],
           \A w \in Workers : worker'[w].stage = "claimed" => worker'[w] = worker[w]
    PROVE  TokensTellApart'
<1> USE DEF Typed, TypeOK, TokensTellApart
<1>1. \A j \in Jobs : \A r \in rows[j] : r.token <= count'[j]
  BY DEF AttemptRow
<1>2. ASSUME NEW w \in Workers, worker'[w].stage = "claimed"
      PROVE  worker'[w].own <= count'[worker'[w].job]
  <2>1. worker'[w] = worker[w] /\ worker[w].job \in Jobs /\ worker[w].own \in Nat
    BY <1>2
  <2> QED BY <1>2, <2>1
<1> QED BY <1>1, <1>2

\* A step that writes no row, completes nothing and keeps how jobs ended keeps
\* the success of each job single.
LEMMA SuccessStill ==
    ASSUME Typed, OneSuccess, OneCompleter, OutcomeStep, rows' = rows,
           \A w \in Workers : Closing(w)' => worker'[w] = worker[w]
    PROVE  OneSuccess' /\ OneCompleter'
<1> USE DEF Typed, TypeOK, OneSuccess, OneCompleter, Closing, OutcomeStep
<1>1. OneSuccess'
  OBVIOUS
<1>2. OneCompleter'
  OBVIOUS
<1> QED BY <1>1, <1>2

\* Every statement of a worker keeps SuccessInv.
LEMMA WorkerSuccess ==
    ASSUME Typed, Typed', SuccessInv, OutcomeStep,
           NEW w \in Workers, Work(w) \/ Renew(w) \/ Crash(w)
    PROVE  SuccessInv'
<1> DEFINE k == worker[w].job
<1> USE DEF SuccessInv
<1>a. worker[w].stage # "idle" => k \in Jobs /\ worker[w] \in Busy
  BY DEF Typed, TypeOK
<1>b. \A v \in Workers : worker[v].stage # "idle" => worker[v] \in Busy
  BY DEF Typed, TypeOK
<1>q. ASSUME rows' = rows, \A j \in Jobs : count'[j] >= count[j],
             \A v \in Workers : worker'[v].stage = "claimed" => worker'[v] = worker[v],
             \A v \in Workers : Closing(v)' => worker'[v] = worker[v]
      PROVE  SuccessInv'
  BY <1>q, TokensStill, SuccessStill
<1>1. CASE Claim(w)
  <2>1. /\ k \in Jobs /\ count[k] \in Nat /\ rows' = rows
        /\ count' = [count EXCEPT ![k] = count[k] + 1]
        /\ worker' = [worker EXCEPT ![w].stage = "claimed", ![w].own = count[k] + 1]
    BY <1>1, <1>a DEF Claim, Typed, TypeOK
  <2>2. /\ worker'[w].stage = "claimed" /\ worker'[w].job = k /\ worker'[w].own = count[k] + 1
        /\ \A v \in Workers \ {w} : worker'[v] = worker[v]
    BY <1>1, <1>a, <2>1 DEF Claim, Typed, TypeOK
  <2>3. OneSuccess' /\ OneCompleter'
    BY <2>1, <2>2, SuccessStill DEF Closing
  <2>4. \A r \in rows[k] : r.token \in Nat /\ r.token <= count[k]
    BY <2>1 DEF TokensTellApart, Typed, TypeOK, AttemptRow
  <2>5. \A v \in Workers \ {w} : worker[v].stage = "claimed" =>
            worker[v].own \in Nat /\ worker[v].job \in Jobs
                /\ worker[v].own <= count[worker[v].job]
    BY <1>b DEF TokensTellApart
  <2>6. \A j \in Jobs : count'[j] = IF j = k THEN count[k] + 1 ELSE count[j]
    BY <2>1 DEF Typed, TypeOK
  <2>7. \A j \in Jobs : \A r \in rows'[j] : r.token <= count'[j]
    BY <2>1, <2>4, <2>6 DEF TokensTellApart
  <2>8. ASSUME NEW v \in Workers, worker'[v].stage = "claimed"
        PROVE  /\ worker'[v].own <= count'[worker'[v].job]
               /\ \A r \in rows'[worker'[v].job] : r.token # worker'[v].own
               /\ \A u \in Workers : /\ worker'[u].stage = "claimed"
                                     /\ worker'[u].job = worker'[v].job
                                     /\ worker'[u].own = worker'[v].own
                                     => u = v
    <3>1. CASE v = w
      <4>1. ASSUME NEW u \in Workers \ {w}, worker[u].stage = "claimed", worker[u].job = k
            PROVE  worker[u].own # count[k] + 1
        BY <2>1, <2>5, <4>1
      <4>2. \A r \in rows[k] : r.token # count[k] + 1
        BY <2>1, <2>4
      <4>3. count'[k] = count[k] + 1
        BY <2>1, <2>6
      <4>4. worker'[v].own <= count'[worker'[v].job]
        BY <2>1, <2>2, <3>1, <4>3
      <4>5. \A r \in rows'[worker'[v].job] : r.token # worker'[v].own
        BY <2>1, <2>2, <3>1, <4>2
      <4>6. \A u \in Workers \ {w} : worker'[u] = worker[u]
        BY <2>2
      <4> QED BY <2>2, <3>1, <4>1, <4>4, <4>5, <4>6
    <3>2. CASE v # w
      <4>1. worker'[v] = worker[v] /\ worker[v].job \in Jobs /\ worker[v].own \in Nat
        BY <2>2, <2>5, <2>8, <3>2
      <4>2. worker[v].job = k => worker[v].own <= count[k]
        BY <2>5, <2>8, <3>2, <4>1
      <4>3. worker'[v].own <= count'[worker'[v].job]
        BY <2>1, <2>5, <2>6, <2>8, <3>2, <4>1 DEF Typed, TypeOK
      <4>4. \A r \in rows'[worker'[v].job] : r.token # worker'[v].own
        BY <2>1, <2>8, <4>1 DEF TokensTellApart
      <4>5. ASSUME NEW u \in Workers, worker'[u].stage = "claimed",
                   worker'[u].job = worker'[v].job, worker'[u].own = worker'[v].own
            PROVE  u = v
        <5>1. CASE u = w
          BY <2>1, <2>2, <4>1, <4>2, <4>5, <5>1
        <5>2. CASE u # w
          <6>1. worker'[u] = worker[u]
            BY <2>2, <5>2
          <6> QED BY <2>8, <4>1, <4>5, <6>1 DEF TokensTellApart
        <5> QED BY <5>1, <5>2
      <4> QED BY <4>3, <4>4, <4>5
    <3> QED BY <3>1, <3>2
  <2>9. TokensTellApart'
    BY <2>1, <2>7, <2>8 DEF TokensTellApart
  <2> QED BY <2>3, <2>9
<1>2. CASE LoseCandidate(w) \/ Renew(w) \/ Crash(w)
  BY <1>2, <1>q DEF LoseCandidate, Renew, Crash, Typed, TypeOK, Closing
<1>3. CASE Record(w)
  <2> DEFINE row == [number |-> count[k], token |-> worker[w].own, status |-> "RUNNING"]
  <2>1. /\ k \in Jobs /\ worker[w].stage = "claimed"
        /\ \/ rows' = [rows EXCEPT ![k] = rows[k] \cup {row}] /\ worker' = [worker EXCEPT ![w].stage = "recorded"]
           \/ rows' = rows
        /\ UNCHANGED <<status, count>>
    BY <1>3, <1>a DEF Record, Typed, TypeOK
  <2>2. \A v \in Workers \ {w} : worker'[v] = worker[v]
    BY <1>3 DEF Record, Typed, TypeOK
  <2>3. worker'[w].stage \in {"recorded", "idle"}
    BY <1>3, <1>a DEF Record, Typed, TypeOK
  <2>4. CASE rows' = rows
    BY <1>q, <2>1, <2>2, <2>3, <2>4 DEF Closing, Typed, TypeOK
  <2>5. CASE rows' = [rows EXCEPT ![k] = rows[k] \cup {row}]
    <3>1. /\ row.token = worker[w].own /\ row.status = "RUNNING" /\ row.token <= count[k]
          /\ \A r \in rows[k] : r.token # row.token
      BY <2>1 DEF TokensTellApart
    <3> HIDE DEF row
    <3>2. \A j \in Jobs : rows'[j] = IF j = k THEN rows[k] \cup {row} ELSE rows[j]
      BY <2>1, <2>5 DEF Typed, TypeOK
    <3>3. \A v \in Workers : worker'[v].stage = "claimed" =>
              v # w /\ worker'[v] = worker[v] /\ worker[v].job \in Jobs
      BY <1>b, <2>2, <2>3
    <3>4. \A v \in Workers : worker'[v].stage = "claimed" /\ worker[v].job = k
                                => worker[v].own # row.token
      BY <2>1, <3>1, <3>3 DEF TokensTellApart
    <3>5. \A v \in Workers : Closing(v)' => worker'[v] = worker[v] /\ worker[v].job \in Jobs
      BY <1>b, <2>2, <2>3 DEF Closing
    <3>6. \A j \in Jobs : \A r, s \in rows'[j] : r.token = s.token => r = s
      BY <3>1, <3>2 DEF TokensTellApart
    <3>7. \A j \in Jobs : \A r \in rows'[j] : r.token <= count'[j]
      BY <2>1, <3>1, <3>2 DEF TokensTellApart
    <3>8. TokensTellApart'
      BY <2>1, <3>2, <3>3, <3>4, <3>6, <3>7 DEF TokensTellApart
    <3>9. OneSuccess'
      BY <2>1, <3>1, <3>2 DEF OneSuccess
    <3>10. OneCompleter'
      BY <2>1, <3>1, <3>2, <3>5 DEF OneCompleter, Closing
    <3> QED BY <3>8, <3>9, <3>10
  <2> QED BY <2>1, <2>4, <2>5
<1>4. CASE Fetch(w)
  BY <1>4, <1>a, <1>q DEF Fetch, Typed, TypeOK, Closing
<1>5. ASSUME Refused(w) PROVE SuccessInv'
  BY <1>5, <1>q DEF Refused, Typed, TypeOK, Closing
<1>6. CASE Complete(w)
  <2>1. CASE Completable(w)
    <3>1. /\ k \in Jobs /\ status[k] = "RUNNING" /\ status'[k] = "SUCCEEDED"
          /\ rows' = rows /\ count' = count
          /\ worker'[w].stage = "closing" /\ worker'[w].job = k
          /\ \A v \in Workers \ {w} : worker'[v] = worker[v]
      BY <1>6, <1>a, <2>1 DEF Complete, Completable, Holds, Settle, Typed, TypeOK
    <3>2. TokensTellApart'
      BY <3>1, TokensStill DEF Typed, TypeOK
    <3>3. OneSuccess'
      BY <3>1 DEF OneSuccess, OutcomeStep
    <3>4. \A v \in Workers : Closing(v) => worker[v].job # k
      BY <3>1 DEF OneCompleter
    <3>5. \A r \in rows[k] : r.status # "SUCCEEDED"
      BY <3>1 DEF OneSuccess
    <3>6. \A v \in Workers \ {w} : Closing(v)' => Closing(v) /\ worker[v].job \in Jobs
      BY <1>b, <3>1 DEF Closing
    <3>7. OneCompleter'
      BY <3>1, <3>4, <3>5, <3>6 DEF OneCompleter, OutcomeStep
    <3> QED BY <3>2, <3>3, <3>7
  <2>2. CASE ~Completable(w)
    BY <1>5, <1>6, <2>2 DEF Complete
  <2> QED BY <2>1, <2>2
<1>7. CASE ReadFail(w)
  <2>1. CASE Holds(w)
    BY <1>7, <1>a, <1>q, <2>1 DEF ReadFail, Typed, TypeOK, Closing
  <2>2. CASE ~Holds(w)
    BY <1>5, <1>7, <2>2 DEF ReadFail
  <2> QED BY <2>1, <2>2
<1>8. CASE Fail(w)
  <2>1. CASE Holds(w)
    <3>1. /\ rows' = rows /\ count' = count /\ worker[w].outcome # "SUCCEEDED"
          /\ worker' = [worker EXCEPT ![w].stage = "closing", ![w].outcome = worker[w].outcome]
      BY <1>8, <2>1 DEF Fail, Settle, Typed, OutcomeKnown
    <3>2. /\ worker'[w].outcome = worker[w].outcome /\ worker'[w].stage = "closing"
          /\ \A v \in Workers \ {w} : worker'[v] = worker[v]
      BY <1>8, <1>a, <3>1 DEF Fail, Typed, TypeOK
    <3> QED BY <1>q, <3>1, <3>2 DEF Closing, Typed, TypeOK
  <2>2. CASE ~Holds(w)
    BY <1>5, <1>8, <2>2 DEF Fail
  <2> QED BY <2>1, <2>2
<1>9. CASE Close(w)
  <2>1. /\ k \in Jobs /\ worker[w].stage = "closing" /\ worker' = [worker EXCEPT ![w] = Idle]
        /\ rows' = [rows EXCEPT ![k] = {Closed(w, r) : r \in rows[k]}]
        /\ UNCHANGED <<status, count>>
    BY <1>9, <1>a DEF Close
  <2>2. \A j \in Jobs : j # k => rows'[j] = rows[j]
    BY <2>1 DEF Typed, TypeOK
  <2>3. \A x \in rows'[k] : \E r \in rows[k] : x = Closed(w, r)
    BY <2>1 DEF Typed, TypeOK
  <2>4. ASSUME NEW r \in rows[k]
        PROVE  /\ Closed(w, r).token = r.token
               /\ Closed(w, r).status = "SUCCEEDED" =>
                    \/ r.status = "SUCCEEDED"
                    \/ Closing(w) /\ r.token = worker[w].held
    <3>1. r \in AttemptRow
      BY <2>1 DEF Typed, TypeOK
    <3> QED BY <2>1, <3>1 DEF Closed, Closing, AttemptRow
  <2>5. \A v \in Workers : worker'[v] = IF v = w THEN Idle ELSE worker[v]
    BY <2>1 DEF Typed, TypeOK
  <2>6. TokensTellApart'
    <3>1. \A j \in Jobs : \A r, s \in rows'[j] : r.token = s.token => r = s
      BY <2>1, <2>2, <2>3, <2>4 DEF TokensTellApart
    <3>2. \A j \in Jobs : \A r \in rows'[j] : r.token <= count'[j]
      BY <2>1, <2>2, <2>3, <2>4 DEF TokensTellApart
    <3>3. \A j \in Jobs : \A x \in rows'[j] : \E r \in rows[j] : x.token = r.token
      BY <2>2, <2>3, <2>4
    <3>4. \A v \in Workers : worker'[v].stage = "claimed" =>
              v # w /\ worker'[v] = worker[v] /\ worker[v].job \in Jobs
      BY <1>b, <2>5
    <3> QED BY <2>1, <3>1, <3>2, <3>3, <3>4 DEF TokensTellApart
  <2>7. ASSUME NEW r \in rows[k], NEW s \in rows[k], Closed(w, r).status = "SUCCEEDED"
        PROVE  /\ status[k] = "SUCCEEDED"
               /\ Closed(w, s).status = "SUCCEEDED" => r = s
    <3>1. CASE Closing(w)
      BY <2>1, <2>4, <2>7, <3>1 DEF OneCompleter, TokensTellApart
    <3>2. CASE ~Closing(w)
      BY <2>1, <2>4, <2>7, <3>2 DEF OneSuccess
    <3> QED BY <3>1, <3>2
  <2>8. OneSuccess'
    <3>1. ASSUME NEW j \in Jobs, NEW x \in rows'[j], NEW y \in rows'[j], x.status = "SUCCEEDED"
          PROVE  status'[j] = "SUCCEEDED" /\ (y.status = "SUCCEEDED" => x = y)
      <4>1. CASE j # k
        BY <2>1, <2>2, <3>1, <4>1 DEF OneSuccess
      <4>2. CASE j = k
        <5>1. PICK r \in rows[k] : x = Closed(w, r)
          BY <2>3, <4>2
        <5>2. PICK s \in rows[k] : y = Closed(w, s)
          BY <2>3, <4>2
        <5> QED BY <2>1, <2>7, <3>1, <4>2, <5>1, <5>2
      <4> QED BY <4>1, <4>2
    <3> QED BY <3>1 DEF OneSuccess
  <2>9. OneCompleter'
    <3>1. ASSUME NEW v \in Workers, Closing(v)'
          PROVE  /\ v # w /\ worker'[v] = worker[v] /\ Closing(v) /\ worker[v].job \in Jobs
                 /\ Closing(w) => worker[v].job # k
      BY <1>b, <2>1, <2>5, <3>1 DEF Closing, OneCompleter
    <3>2. ASSUME NEW v \in Workers, Closing(v)', NEW x \in rows'[worker'[v].job]
          PROVE  x.status # "SUCCEEDED"
      <4>1. CASE worker[v].job # k
        BY <2>2, <3>1, <3>2, <4>1 DEF OneCompleter
      <4>2. CASE worker[v].job = k
        <5>1. PICK r \in rows[k] : x = Closed(w, r)
          BY <2>3, <3>1, <3>2, <4>2
        <5> QED BY <2>4, <3>1, <3>2, <4>2, <5>1 DEF OneCompleter
      <4> QED BY <4>1, <4>2
    <3> QED BY <2>1, <3>1, <3>2 DEF OneCompleter
  <2> QED BY <2>6, <2>8, <2>9
<1> QED BY <1>1, <1>2, <1>3, <1>4, <1>6, <1>7, <1>8, <1>9 DEF Work

\* Every step keeps SuccessInv.
LEMMA SuccessInStep ==
    ASSUME Typed, NothingRunsUnapproved, SuccessInv, [Next]_vars
    PROVE  SuccessInv'
<1>a. Typed' /\ OutcomeStep
  BY StepTyped, StepKeepsOutcome
<1>q. ASSUME UNCHANGED <<rows, count>>,
             \A v \in Workers : worker'[v] = worker[v]
                                \/ worker'[v].stage \notin {"claimed", "closing"}
      PROVE  SuccessInv'
  BY <1>a, <1>q, TokensStill, SuccessStill DEF SuccessInv, Closing, Typed, TypeOK
<1>1. ASSUME NEW j \in Jobs, Enqueue(j) \/ Cancel(j) \/ Lapse(j) PROVE SuccessInv'
  BY <1>1, <1>q DEF Enqueue, Cancel, Lapse
<1>2. ASSUME NEW j \in Jobs, NEW approved \in BOOLEAN, Decide(j, approved)
      PROVE  SuccessInv'
  BY <1>2, <1>q DEF Decide
<1>3. CASE Sweep
  BY <1>3, <1>q DEF Sweep
<1>4. ASSUME NEW w \in Workers, NEW j \in Jobs, Select(w, j) PROVE SuccessInv'
  BY <1>4, <1>q DEF Select, Typed, TypeOK
<1>5. ASSUME NEW w \in Workers, Work(w) \/ Renew(w) \/ Crash(w) PROVE SuccessInv'
  BY <1>5, <1>a, WorkerSuccess
<1>6. CASE UNCHANGED vars
  BY <1>6, <1>q DEF vars
<1> QED BY <1>1, <1>2, <1>3, <1>4, <1>5, <1>6 DEF Next

\* At most one attempt of a job is ever recorded as SUCCEEDED, and only of a job
\* that SUCCEEDED: however leases lapse between claim_job, the attempt's insert,
\* get_job, complete_job and _finish_attempt, and although a worker may close the
\* attempt of another claim than its own.
THEOREM SuccessIsSingle == Spec => []OneSuccess
<1>1. Init => Typed /\ NothingRunsUnapproved /\ SuccessInv
  <2>1. ASSUME Init PROVE NothingRunsUnapproved /\ SuccessInv
    BY <2>1, JobAssumption
    DEF Init, NothingRunsUnapproved, SuccessInv, OneSuccess, TokensTellApart, OneCompleter, Closing
  <2> QED BY <2>1, InitTyped
<1>2. Typed /\ NothingRunsUnapproved /\ SuccessInv /\ [Next]_vars
        => (Typed /\ NothingRunsUnapproved /\ SuccessInv)'
  BY StepTyped, UnapprovedInStep, SuccessInStep
<1>3. SuccessInv => OneSuccess
  BY DEF SuccessInv
<1> QED BY <1>1, <1>2, <1>3, PTL DEF Spec
==============================================================================
