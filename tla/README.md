# A verification project for AI Agent Infra with PG

These TLA+ modules model the concurrent core of *AI Agent Infra with PG*:
workers that claim work from PostgreSQL tables under leases, and everything that
can end, retry, cancel, pause, fork, meter, drain or upgrade around that work. TLC
checks the modules on small instances, TLAPS proves the main safety properties
for every instance. Paths are relative to the repository.

Contents: 1 the system, 2 the modules, 3 the runs, 4 what the runs do not check
although the model has it, 5 bounds and fairness, 6 proofs, 7 not modelled.

## 1. The system

The program is a Python library (`scripts/lib`, about 150 files) around one
database. Processes share nothing but its tables. Where the code holds state and
where several actors change it:

| Component | State | Operations | What makes it hard |
|---|---|---|---|
| Graph Runtime `graph_runtime.py`, `graph_worker.py` | Runs, Node Runs, Ready rows, Attempts, Lease Tokens, checkpoints, joins, wait subscriptions | create, claim, heartbeat, checkpoint, complete, fail, revoke, reap, resolve, cancel, pause, resume, interventions, fork | leases verified in one transaction and used in another, lost workers, replays, joins in every order, a budget without a lock |
| Graph scheduler `graph_scheduler.py` | scheduler lease with a fencing token | acquire, verify, release | a stale read before the conditional update |
| Graph events `graph_event_api.py`, `ingest_event` | inbox, dead letters | ingest, resolve, replay, claim, mark | duplicate and partial delivery |
| Execution control `execution_control.py` | jobs and their attempts | enqueue, decide, cancel, claim, renew, complete, fail | every statement commits on its own; workers die between statements |
| Native runtime `native_runtime.py`, `native_agent_api.py` | executions, their claims, Channel answers | claim, reconcile, call the provider, publish, finish, cancel, suspend | a call to the provider cannot be taken back |
| Administrative commands `platform_agent_pool.py`, `identity_api.py`, `web_app.py` | commands, Action Cards | create, decide, execute, expire | two rows in two transactions; repeated confirmations |
| Model gateway `model_usage_api.py`, `model_governance_api.py`, `embedding_governance.py` | requests, reservations, usage, replay snapshots | check the key, reserve, dispatch, answer, settle, finalize, release | concurrent reservations; failure after each of several transactions |
| Admin group and upgrades `admin_ha.py`, `admin_management.py` | members, leader and lease, plan, votes, node states, Skills | admit, elect, stage, schedule, approve, vote, report, distribute | checks in three statements before the transaction; two requests for two nodes |
| Database access `connection.py` | connections | `execute` (commits), `execute_transaction_callback` (one transaction) | decides what is atomic |
| Graph compiler, state, contracts, governance, assurance | none, or definitions | pure functions and reports | boundary cases |
| Loops, task continuity, SDD, memory, knowledge, identity, collaboration, skills, workspaces, UI, installation | CRUD, documents, files | | I/O (section 7) |

How they interact. A worker process polls `claim_ready`, which picks a READY row,
creates an Attempt with the next fencing token and hands out a Lease Token; in the
Enterprise edition it first verifies the lease of its scheduler. The worker calls
back with the token. A completion writes the node's checkpoint and activates its
successors in the compiled plan: it opens joins, inserts Ready rows or wait
subscriptions, or ends the Run. The reaper takes work back from expired leases and
expires overdue waits; events resolve waits; operators cancel, pause, resume,
reassign, skip and fork. Execution jobs are a separate, simpler queue without a
transaction around it. A native runtime process claims executions from a third
queue, asks a model provider for the answer and publishes it in a Channel, while
administrators drain its node by commands that need a confirmed card. Applications
call providers through the gateway, which reserves from quotas before the call and
settles after it. Admin Agents elect a leader by weight and move the nodes of an
upgrade through drain, migration and health.

`PROJECT.json` lists every component with its files, and every hazard with its
line and the properties that watch it.

### What correctness means here

* **Exclusive work.** A node, a job, an execution has one holder that may commit;
  who lost the claim cannot. A valid scheduler lease has one owner.
* **Nothing lost, nothing twice.** An acknowledged result is final; work whose
  worker vanished returns; retries stay within their policy; one idempotency key
  reaches the provider once; a command takes effect once; an acknowledged event
  released whoever waited for it.
* **Joins.** A join opens when, and only when, enough branches committed, once.
* **Control.** What is cancelled stays cancelled, what ended keeps its outcome,
  what waits can be woken, a fork runs only after somebody answered for it.
* **Accounts.** Quotas hold whatever races, a success is charged, a charge is final.
* **Order.** A node is upgraded one state at a time, and Skills follow the nodes.

## 2. The modules

| Module | Models | Checked in | Proofs |
|---|---|---|---|
| `FencedLease` | abstract: what a lease with a fencing token promises | refined below | |
| `GraphRuntime` | one Run of `graph_runtime.py`, `graph_worker.py` | `MCGraphRuntime` | `GraphRuntimeProofs` |
| `GraphInterventions` | `reassign_attempt`, `skip_node` beside it | `MCGraphInterventions` | `GraphInterventionsProofs` |
| `ExecutionJobs` | `execution_control.py` | `MCExecutionJobs` | `ExecutionJobsProofs` |
| `ModelGateway` | `forward`, `stream_forward`, the governed embedding call | `MCPlatform` | `ModelGatewayProofs` |
| `RuntimeExecutions` | `claim_runtime`, `reconcile_expired_runtime`, `execute_one` | `MCPlatform` | `PlatformCommandsProofs` |
| `PlatformCommands` | commands and cards, on top of `RuntimeExecutions` | `MCPlatform` | `PlatformCommandsProofs` |
| `GraphDelivery` | `ingest_event`, `replay_dead_letter`, `claim_inbox`, `mark_inbox` | `MCPlatform` | `GraphServiceProofs` |
| `GraphFork` | `create_run`'s key, `fork_run`, `resume_run` | `MCPlatform` | `GraphServiceProofs` |
| `SchedulerLease` | `acquire`, `verify`, `release` of the scheduler lease | `MCPlatform` | `GraphServiceProofs` |
| `AdminUpgrade` | the Admin group and its upgrade | `MCPlatform`, `MCAdminUpgrade` | `PlatformProofs` |
| `Platform` | the composition of the last seven | `MCPlatform` | `PlatformProofs` |

In every module one action is one committed statement or transaction, except where
code decides on something it read before its transaction or before a row lock:
there the read and the write are two actions. Every action is the whole handler.

### FencedLease

A resource is granted under a token larger than any before, also while an older grant is
held, which it replaces; grants are lost at any moment; only the latest grant commits, once.
In `RuntimeExecutions` a claim takes over an expired one; `OneCurrentAttempt` says that no claim
does so in `GraphRuntime`. `GraphRuntime` maps a node's `fence`, the
existence of a RUNNING Attempt and the tokens of the Attempts that succeeded to `token`,
`held` and `won` (`AttemptsAreFenced`); `RuntimeExecutions` maps `FENCING_TOKEN`, the status
CLAIMED and the tokens under which an output was written (`ExecutionsAreFenced`). Two
implementations of one promise, in code that shares no line. `ExecutionJobs` is not a third:
`jobs_token` shows that a job may be completed with a token its worker did not earn.

### GraphRuntime and GraphInterventions

*State.* `run`, `usage`, `seq` are the Run's row and its checkpoint sequence; `node`,
`output`, `ready`, `fence`, `wait`, `join`, `inputs` are, for every node key of the plan, the
columns of its Node Run, Ready row, wait subscription and join state; `aKey`, `aStatus`,
`aFence`, `lapsed`, `revoked`, `digest` are, for every Attempt, its row and its Lease
Token. `claim`, `calls` and `due` are what processes read and have not acted on; `acked` is
a history of the answers workers received.

*Actions.* `claim_ready` is `ClaimSelect` (the candidate query), `ClaimReserve` (the
conditional update of the Ready row and the read of the budget), then `ClaimCommit`, or
`ClaimReject` (deadline, executor or input schema), `ClaimOverBudget`, `ClaimAbort`.
Between reserve and commit the Ready row is locked (`Unlocked`), so controls and other
claims wait, as in PostgreSQL. A claim that tries several candidates is several claims.
A worker's call is `Submit` (the verification of the lease, its own transaction) and then
`Heartbeat`, `Checkpoint`, `Complete`, `Replay`, `Fail` or `Revoke`, or `Drop` when the
transaction rolls back. `Complete` is the whole handler with `_activate_downstream_tx`.
Completions of one Run exclude each other: each appends a checkpoint under a unique
sequence number and updates the Run's row. `reap_expired_leases` is `ReapLease` for each
lease, `ReadOverdue` and `ExpireWait` for each wait. `Lapse` is the clock.

`GraphInterventions` adds operators: `ReadAttempt`/`Reassign` and `ReadNode`/`Skip`, the check
and the transaction that trusts it, with anything in between.

*Abstractions.* Payloads are digests, error codes are certain or uncertain, conditions
are a free choice of edges (`Selections`), the evaluator's verdict on the budget evidence
is the parameter `over`. Plans are acyclic, with one edge per pair of nodes.

### ExecutionJobs

`status`, `cancel`, `count`, `token`, `lapsed` are columns of `EXECUTION_JOBS`, `rows` the
`EXECUTION_ATTEMPTS` of each job, `worker` what each `run_worker_once` holds: its stage, its
job, the token it generated (`own`) and the one `get_job` returned to it (`held`). A random
token is modelled by the attempt count its claim set, as unique per job. Since
`connection.execute` commits, `Sweep`, `Select`, `Claim`, `Record`, `Fetch` are `claim_job`;
`ReadFail` and `Fail` are `fail_job`; `Complete` and `Close` are `complete_job`; `Crash` ends a
process at any statement.

### ModelGateway

`request` is the status of each call's row, `quota` and `charge` its reservations by policy,
`lock` the policies' row locks, `usage` and `snapshot` what it left for the meter and for
replays, `stage` how far the call got. `reserve_quota` locks one policy after another in
the order its query returned them, so `Reserve` is one action per policy, and a deadlock
is `ReservationFails`. Then `Dispatch`, `Answer` (any reported total or none), `Settle`,
`Finalize`; or, from any stage, `CallFails`, `Release`, `MarkFailed`, a client that hangs up
and a process that dies. Two calls with one key meet in `CheckKey` and `Insert`.

### RuntimeExecutions and PlatformCommands

`exec`, `fencing`, `holder`, `expired` are a row of `CX_RUNTIME_EXECUTIONS`; `response` the Channel
message that answers; `runner` the stage of each process in `execute_one`; `sends` a history
of the tokens under which the provider was called. `Candidate` and `ClaimExecution` are
`claim_runtime`; `CallProvider`, `ProviderAnswers`, `ProviderFails` the exchange; `CheckPublication`
and `Publish` write the answer, `FinishCompleted` and `FinishFailed` the row. A command is
created, then its card; the card is decided, then the command executed, each in its own
transaction (`CreateCommand`, `CreateCard`, `DecideCard`, `ExecuteCommand`); a drain sends
expired claims of its node back to the queue.

### GraphDelivery, GraphFork, SchedulerLease

`GraphDelivery`: `inbox` and `tries` are a row of `GRAPH_INBOX`, `wait` the subscriptions,
`caller` the stage of each `ingest_event` or `replay_dead_letter`; recording, taking, resolving
and acknowledging commit separately. `resolve_waits` reads the `ResolveLimit` oldest waits
(`SelectWaits`) and then ends those of them that still wait (`ResolveWaits`), as it takes no lock
in between; `EndWait` is the reaper or a cancellation; `early` and `batches` are histories. `GraphFork`:
`LookForChild`, `CreateChild`, `AppendForkCheckpoint`, `HoldChild` are the transactions of
`fork_run`; the approval request, its decision and `ResumeChild` are the operators'. `SchedulerLease`: `ReadLease`, then
`InsertLease` or `UpdateLease`; `VerifyClaim`, then `ClaimCommits`, the claim that trusted it.

### AdminUpgrade

`weight` are the voting members, `leader`, `term`, `leased` the group's row, `plan`, `vote`,
`rollout`, `skill` the upgrade's. A report on a node is `SeeLeader`, `SeeLease` (or `Supervise`,
for a node an operator records), then `MoveNode`, `CountNodes`, `CommitNode`: two statements
before the transaction that locks its node's row, reads the others unlocked and writes the
plan. `AutoSchedule` is the end of an upload; it waits for the rows of the online nodes it
knows. The group starts as in the Community edition, with one built-in member, and a weight is
given once, on admission. The Enterprise edition installs two members with weight 5 each, which
`validate_weights` refuses; the only way out would be `set_member_weight`, which always raises on a
group with members, because it makes rows of the columns of the one row it read
(`admin_management.py:492`). That group elects nobody and has no states worth modelling.

### Platform

The seven parts share no table, so a behaviour of the platform is an interleaving of
independent behaviours, and each property speaks of one part. `moving`, chosen once,
says which one moves; `PlatformImplementsParts` proves the projection, and TLC need not
multiply independent states.

## 3. Runs

Passing runs (distinct states):

| Run | Configuration | Shows |
|---|---|---|
| `graph_workers` | chain whose end is non-idempotent, 2 workers, 2 payloads, 3 Attempts, 2 calls in flight, all lease operations; 143k | one current Attempt, tokens that grow, no orphaned work, final acknowledgements, bounded retries, a RUNNING Run can go on, refinement of `FencedLease` |
| `graph_controls` | a timed human wait between two nodes, 2 workers, 3 Attempts, retries, pause, resume, cancellation, event and expiry, `LiveSpec`; 84k | sleepers can be woken, waits end once, outcomes are final, cancellation fences everything, revoked work returns, timed waits end |
| `graph_joins` | three branches, one conditional, QUORUM, lapsing leases, cancellation, one node skipped or one Attempt reassigned; 1.37M | the join is earned, opens in time, and opens once; no Attempt ends twice |
| `jobs_safety` | 2 jobs, 2 workers, crashes, approval, cancellation, `LiveSpec`; 282k | attempts bounded, approval first, one success, outcomes final, cancellation holds, jobs end |
| `platform` | 3 gateway calls of which 2 share a key, under 2 quotas; 1 execution, 2 processes, 1 command, 1 suspension; 2 event calls, 1 consumer, 3 waits of which a call takes 2; 2 forks; 2 schedulers; 2 Admin Agents, 2 nodes, 2 reports, 2 uploads; 647k | quotas, one dispatch per key, charges, one effect per command, no lost wait before its turn, held forks, fenced executions, rest of what ended, exclusive lease, order of the upgrade |

Runs that end in a counterexample, each checking what a document or a check of the
repository says (`PROJECT.json`, findings, quotes the line):

| Run | What the code does |
|---|---|
| `terminal_run` | the first exit ends the Run, other branches stay READY or RUNNING |
| `blind_retry` | the reaper requeues a non-idempotent node |
| `budget` | concurrent claims reserve the same call |
| `jobs_token` | a claimant reads back, and completes with, another claim's token |
| `runtime_resend` | an execution whose claim expired is sent to the provider again |
| `fork_hold` | a forked child may be resumed before the hold is recorded, and replays unanswered |
| `upgrade_votes` | votes are counted by agent id among member ids: one member's vote, a complete majority, decides nothing |

Every property of a passing run has a mutant in `PROJECT.json`: a plausible bug in one
definition, under which TLC finds the property violated. The mutated definitions stand
before the originals, marked "Mutant".

## 4. Behaviours that bound what the properties say

The model has them, the properties name them or exclude them, no run is spent on them:

* A branch that is late for a join whose node is done can never commit: its completion inserts
  a second Node Run, which the unique key rejects each time (`graph_runtime.py:256`, `Insertable`).
* `checkpoint` appends for a lease that lapsed after it was verified (`graph_worker.py:43`);
  outputs are safe (`CommitIsCurrent`).
* A completion during a pause activates nothing, also after the resume
  (`graph_runtime.py:1514`): `NotStranded` is checked without pauses. It is checked and proved
  without joins as well: an ALL join whose one source failed is opened by nobody, and
  a retry in another branch sets its Run RUNNING all the same.
* The retry of a failed Attempt sets a PAUSED or FAILED Run RUNNING (`graph_runtime.py:1604`):
  `OutcomeIsFinal` is about SUCCEEDED and CANCELLED.
* A reassignment decided on a stale read gives the node away from its next claimant, so
  two Attempts run (`graph_runtime.py:1814`): the invariants of leases are those of
  `GraphRuntime`, and `GraphInterventions` keeps that no Attempt ends twice.
* The Attempt of a skipped node keeps running, and `fail_attempt` updates the node without a
  look at its status (`graph_runtime.py:1597`): a late failure overwrites the result of the skip
  that had opened a join. Joins under skips are about workers who do not report failures.
* A skip writes into a cancelled Run what it decided on before (`graph_runtime.py:1862`):
  `CancelFences` is about workers, the reaper and reassignments.
* The job of a worker that died in the last attempt stays RUNNING
  (`execution_control.py:134`), and so does a job cancelled while it runs successfully
  (`:185`): `JobsEnd` allows a job to rest in exactly the states `Abandoned` names.
* A forked child that is resumed before `fork_run` records the hold, or after `fork_run` died
  there, runs without a resolution (`graph_runtime.py:1949`): that is the finding `fork_hold`.
  `ForkIsHeld` excepts it (`premature`) and shows that once a call recorded the hold nothing else
  gets round it.
* An event is acknowledged although waits are left behind the 100 it resolved
  (`graph_runtime.py:1970`). `NoWaitLost` says exactly who may be left: a wait behind a full batch
  none of which is younger (`Crowded`).
* A stale acquisition sets the token of a free scheduler lease back
  (`graph_scheduler.py:243`): `LeaseIsExclusive` is about a lease that is held.
* While an execution is CLAIMED again, an older process may overwrite the newer claim's
  text (`identity_api.py:3954`): `EndedExecutionRests` is about executions that ended.
* Two reports drain two nodes at once (`admin_management.py:1025`); if the last two nodes
  turn HEALTHY in overlapping transactions the plan stays ROLLING for ever (`:1035`); a
  REJECTED plan is scheduled by the next upload (`:852`).
* An upload schedules the Skills of an archive anew while a node it does not see is
  reported on: `SkillsFollowNodes` excepts a history in which that happened (`overtaken`).

## 5. Bounds and fairness

*Bounds.* `AttemptBound` (Attempts in a behaviour), `CallBound` (verified calls in flight),
`SeqBound` (checkpoints by workers' own saves), `OperatorBound` (interventions), `FenceBound`
and `TokenBound` (tokens), `SuspendBound`, `ResumeBound`, `TermBound`, `UploadBound` appear in
guards only, never in a definition the code has. Two actors and two calls give every
pair that can race for a row; three Attempts let a node be lost, retried and completed
while the first worker's calls are still in flight; three branches are the least for
which a majority is neither one nor all; two policies, one hard and one that warns, with
room for one reservation beside one small answer, are the least in which two
reservations can overdraw; one execution and a fencing token that two claims reach let
the old process come back while the new one works; two nodes and two reports are the
least that overlap. In `ExecutionJobs` nothing grows beyond `MaxAttempts`, and in
`GraphDelivery` nothing beyond `DeliveryLimit`. It and `ResolveLimit`, 100 in the code and 2 beside
three waits in the run, are the code's own limits with smaller values. `graph_controls` has a chain,
whose wait, retries and controls fill the run, and `graph_joins` a worker that reports no failure,
for the reason in section 4; of a cancellation beside parallel branches and late reassignments, and of
failures beside reassignments, the theorems `CancelIsFinalDespiteReassignments` and
`AttemptsAreFinal` speak, which hold for every plan.
Workers, payloads, reports, event calls and the two runtime processes are symmetric in runs
without liveness. Both runtime processes are on the node that is drained; a drain that spares a
claim is one that comes before the claim expires.

*Deadlock* is not checked: a Run that ended, a queue without jobs, a call that returned
really stop, and every process may die.

*Fairness.* `GraphRuntime!LiveSpec` assumes that time passes and that someone keeps calling
the reaper; nothing in the repository schedules `recover_runtime`, so this is an assumption on the deployment that `docs/recovery.md` (step 3) makes as well. Workers and
operators owe nothing. `ExecutionJobs!LiveSpec` assumes that leases lapse, that
`run_worker_once` is called again and again (its sweep and its query run), and that a
worker that keeps being able to take its next step takes it, strong because crashes and
other workers' steps disable it in between; what a job executes returns, which its
timeouts ensure. Crashes and cancellations may happen at any point. Operators owe nothing.
The other modules state safety only: their processes are called from outside, and
no line of the repository obliges anyone to call them again.

## 6. Proofs

All theorems hold for every value of the constants that satisfies the named assumptions
of their module (`PlanAssumption`, `BoundAssumption`, `InterventionAssumption`, `JobAssumption`,
`GatewayAssumption`, `ExecutionAssumption`, `CommandAssumption`, `DeliveryAssumption`,
`ForkAssumption`, `SchedulerAssumption`, `AdminAssumption`), which TLC evaluates in the runs.
Nothing else is assumed, except what a theorem names as its own hypothesis. Two assumptions say
more than a type. `PlanAssumption` has a finite plan whose entry no edge leads to: the
compiler refuses a node that cannot be reached from the entry and a cycle without a bound
(`graph_compiler.py:627`, `:745`, `:759`), so an edge back to the entry closes a cycle, and cyclic plans
are not modelled. `GatewayAssumption` has finitely many calls, as every table has finitely many
rows: a sum over them is otherwise not defined.

### The leases of a Run (`GraphRuntimeProofs`)

`AttemptInv` is the inductive invariant. That a Node Run has one current Attempt is not
inductive: a claim creates an Attempt when the node is READY, so one needs that a running
Attempt has its node RUNNING and its Ready row CLAIMED (`RunnerHolds`) and the highest
token; a new Attempt gets `fence + 1`, so one needs that no Attempt is above `fence`
(`TokensBounded`) and that tokens grow (`TokensGrow`); `Created` separates Attempts made from
those to come, `SuccessHolds` keeps a second Attempt away from a node that succeeded. From it
follow `CurrentAttempt`, `NoOrphans`, `CommitsAreCurrent`, `AcksAreDurable`, and
`AttemptsImplementLease`: every step of a Run maps to a grant, a loss, a commit or a rest of each
node's `FencedLease`. `OutcomesAreFinal`, `CancelIsFinal`, `SleepersWake` rest on invariants of their
own.

`RetriesWithinPolicy` bounds a count of Attempts by a number that no transaction
looks at: `fail_attempt` compares the token of the last claim with `max_attempts`, and a lost
lease uses up a token without a failure. An Attempt that failed at or above the limit has
ended its node for good and its token is the highest (`RetriesInv`); so a node has one such
Attempt at most, all its other failures have different tokens below the limit, and the
number of failures is at most the number of those tokens and one.

### The rows of a Run (`GraphRuntimeProofs`, `GraphInterventionsProofs`)

Every transaction is of one of two kinds (`QuietOrActivates`): it is *quiet*, creates no Node
Run, opens no row that was consumed and touches no join, or it *activates* the successors
of one node. With `RowsHaveNodes` (a node without a Node Run has no other row) and
`LockHolds` (a claim that reserved a row has its only lock, and the row is still READY) this
suffices for everything about rows that holds whoever acts: `RowsInOrder`, `WaitsEndOnce`.

An intervention decides on a stale read, and `AttemptInv` does not survive it. The rows and
locks do: `RowsStayInOrder` needs only that a skip was decided on a Node Run that exists
(`SkipsExist`). `JoinsAreOneShot` follows from the two kinds of steps. `AttemptsAreFinal` follows
from how an Attempt moves: a new one takes a number nobody had, every other update is
conditional on RUNNING. `CancelIsFinalDespiteReassignments` carries `CancelFences` over to late
reassignments, with the invariant that no Attempt of a cancelled Run runs (`NobodyRuns`).

### Joins and progress (`GraphInterventionsProofs`)

`ReadyIsSatisfied` and `SatisfiedIsReady` relate the code's test of a join, a comparison of counts
(`JoinReady`), to what its strategy promises of the set of predecessors (`Satisfied`).

* `JoinsAreEarned`: the node behind a join exists only if its row is COMMITTED, on arrivals that
  sufficed, and every arrival is a result that was never taken back (`JoinInv`,
  `ResultsKept`). For every plan, strategy and control.
* `JoinsAreEarnedDespiteSkips`: the same under interventions, if workers report no failure. With
  `fail` TLC has the counterexample named in section 4.
* `JoinsOpenInTime`: while a Run goes on, a join that is not open has every result of its sources
  among its arrivals, and they do not suffice (`NoArrivalLost`). Three hypotheses, each with a
  counterexample in TLC when it is dropped: no failure (its retry brings a Run back in which
  branches committed without activating), no pause (the same after the resume), and
  unconditional edges into joins (a branch may decide not to contribute).
* `RunsAreNotStranded`: where branches never meet, a node that ends is the only source of its
  targets (`Sourced`), finds each of them without rows and opens it, a sleeping row keeps its
  subscription (`WaitsCanWake`), and every other step hands work on, gives it back or stops
  the Run. Failures, retries, lapses, rejections, deadlines and cancellation are all in it.

### Jobs (`ExecutionJobsProofs`)

The claiming update does not look at the count, so `AttemptsWithinLimit` needs that a job that
waits for a claim has an attempt left (`AttemptLeft`); a failing worker makes such a job from a
count it read before, so it needs that the lease of a running job is the claim its count
counts (`LeaseIsLatest`) and that a worker that decided on a retry holds a claim below the
limit (`RetryLeft`).

`SuccessIsSingle`: the worker that completes a job need not be the one whose attempt it
closes, since `get_job` reads the token back (`jobs_token`). What saves the history is that tokens
tell the attempts apart, the ones claimed and not recorded yet included
(`TokensTellApart`), and that while the one worker that completed the job has its attempt still to
close no row says SUCCEEDED (`OneCompleter`).

### The gateway (`ModelGatewayProofs`)

`KeyDispatchesOnce` needs that a key has one row that is not a replay (`KeysAreUnique`) and that
nothing is dispatched before its row (`DispatchFollowsInsert`); `SuccessesAreCharged` needs what each
stage of a call implies about its reservations (`ReservedFirst`, `ChargedWhenSettled`), over every
failure path.

`QuotaIsKept` is about a sum over all calls. Its invariant is small (`Room`: an open reservation
is booked with the policy's amount, and one that is not committed is behind the lock of its
policy, so that nobody's reading misses it). The work is the sum: `SumFunction` is a fold,
that is a recursive function on the subsets of the calls. The library's induction theorems
take a predicate and cannot be instantiated, so the lemmas argue with the least
counterexample instead, which the well-foundedness of the numbers and of the subsets of
a finite set provides: the function exists (`SumsExist`), and sums compare, add and fall
with their terms (`SumsAdd`, `SumBelow`, `SumAt`).

### The other services and the platform

*PlatformCommandsProofs.* `EndedExecutionsRest` and `ExecutionsImplementLease` need that an
output belongs to a completed execution (`OutputIsOfCompleted`) and that a busy process
works on an execution (`WorksOnExecution`); the refinement covers drains, cancellations and
suspensions in one argument.

*GraphServiceProofs.* `WaitsAreReleased`: a call works on an event that is recorded
(`OnRecordedEvent`), so the waits that were open then are fixed (`EarlyWereSubscribed`); the batch a
call has read holds each of them that still waits, or is full and crowds it out
(`EarlyInBatch`); so each is served before the call may acknowledge the event
(`ResolvedBeforeAck`), and who is served stays so (`ServedStays`), since no wait opens again. An event that an
outside consumer took is excluded, as its acknowledgement resolves nothing. `ForkHeld` needs that a call past
its first transaction has a child (`CreatedBefore`) and that a child without a hold was
released (`FreeChildWasReleased`). `LeaseExclusive`: a scheduler that read its own row reads a row
nobody else may have changed while the lease is valid (`OwnRowIsFresh`).

*PlatformProofs.* `UpgradeInv` says that a report that moved its node is in step with the
node's row (`ReportsInStep`), that reports past the lock have different nodes
(`OneReportPerNode`), and that a report that found the rollout whole finds it whole when it
commits (`WholeIsDone`); `SkillsComeLast` and `NodesAdvance` follow. `PlatformImplementsParts` shows
that the composition implements each part, and `PlatformIsSafe`, `PlatformTypes` carry the
parts' invariants over.

### Only model-checked

Every invariant and every property of a step that a passing run checks is stated by a
theorem, and the run satisfies the theorem's hypotheses: it shows on a small instance what
the theorem says of all. Liveness (`AbandonedWorkReturns`, `TimedWaitsEnd`, `JobsEnd`) stays
with TLC: the prover has no rule for fairness or ENABLED. What a recursive definition
computes for every input is proved only where a least counterexample does it by hand, as
for the sums. No module has a RECURSIVE operator.

## 7. Not modelled

* Of the Graph Runtime: `retry_node`, `force_route` and `compensate`, which start further work in one
  transaction each; `migrate`; cyclic plans; artifacts; worker registration; the actor quotas of
  `claim_ready`.
* The Graph outbox and `telemetry_delivery`: the same conditional updates as the inbox.
* The leased jobs of `memory_lifecycle` and `embedding_governance` and the assignment leases of
  `host_provisioning`, `continuity_handoff` and `compliance_api`: further instances of the claim,
  expire, complete pattern of `ExecutionJobs` and `RuntimeExecutions`.
* Quota windows, prices and the administration of policies.
* `start_upgrade_rollout`: its guard asks for QUORUM_APPROVAL, which no plan reaches (`upgrade_votes`).
  Enrollment, containment commands, session policies and deployment orchestration.
* Compiler, state reducers, contracts, admission and budget evaluation: pure functions over
  documents; a model would be a copy of the code, checked against itself.
* Loops, harness, task plans, task continuity, governed contracts, SDD: documents edited in
  single transactions in an order their caller gives.
* Configuration, cryptography, identity and access control predicates, organization, memory and
  knowledge search, collaboration and protocol adapters, skills, tools, workspaces, user
  interface, HTTP routes, installation and migration scripts: I/O, numeric code, CRUD or queries
  without a protocol of states. These are most of the repository's lines.

The tables' columns and unique keys are read from `scripts/deploy/*.sql`.
