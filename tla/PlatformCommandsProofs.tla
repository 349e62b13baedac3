------------------------- MODULE PlatformCommandsProofs -------------------------
(***************************************************************************)
(* Theorems about PlatformCommands and the executions its commands act on: *)
(* types, commands that take effect once, executions that rest once they   *)
(* ended, and their claims as an implementation of FencedLease.            *)
(***************************************************************************)
EXTENDS PlatformCommands, TLAPS

commandSystemVars == <<commandVars, executionVars>>

(***************************************************************************)
(* The inductive invariant: only a COMPLETED execution has an output, and  *)
(* a process that is not idle works on an execution.                       *)
(***************************************************************************)
OutputIsOfCompleted ==
    \A e \in Executions : /\ fencing[e] > 0 /\ (output[e] # 0 => exec[e] = "COMPLETED")
WorksOnExecution == \A w \in Runners : runner[w].at # "idle" => runner[w].work \in Executions

CommandInv ==
    /\ ExecutionTypeOK /\ CommandTypeOK
    /\ OutputIsOfCompleted /\ WorksOnExecution /\ CommandAppliedOnce

Answers == [state : {"NONE", "STREAMING", "DONE"}, by : Nat]
Processes == [at : RunnerStages, work : Executions \cup {Nobody}, token : Nat]

\* What a step does to an execution is a step of FencedLease, and leaves it alone
\* once it ended.
LeaseMoves(e) ==
    \/ /\ output[e] = 0 /\ output'[e] = 0 /\ exec'[e] = "CLAIMED" /\ fencing'[e] > fencing[e]
    \/ /\ exec[e] = "CLAIMED" /\ exec'[e] # "CLAIMED" /\ fencing'[e] >= fencing[e]
       /\ output[e] = 0 /\ output'[e] = 0
    \/ /\ exec[e] = "CLAIMED" /\ exec'[e] # "CLAIMED" /\ fencing'[e] = fencing[e]
       /\ output[e] = 0 /\ output'[e] = fencing[e]
    \/ /\ fencing'[e] = fencing[e] \/ (fencing'[e] > fencing[e] /\ exec[e] # "CLAIMED")
       /\ exec'[e] = "CLAIMED" <=> exec[e] = "CLAIMED"
       /\ output'[e] = output[e]

Rests(e) ==
    exec[e] \in ExecutionEnds =>
        /\ exec'[e] = exec[e] /\ output'[e] = output[e]
        /\ response'[e] = response[e] \/ (response[e] = NoAnswer /\ response'[e] = Placeholder)

StepKeeps == CommandInv' /\ \A e \in Executions : LeaseMoves(e) /\ Rests(e)

LEMMA CommandInitially == ExecutionInit /\ CommandInit => CommandInv
<1> SUFFICES ASSUME ExecutionInit, CommandInit PROVE CommandInv
    OBVIOUS
<1> USE ExecutionAssumption, CommandAssumption DEF ExecutionInit, CommandInit
<1>1. ExecutionTypeOK
    <2>1. suspended \in BOOLEAN
        OBVIOUS
    <2>6. suspensions \in 0..SuspendBound
        OBVIOUS
    <2>2. response \in [Executions -> [state : {"NONE", "STREAMING", "DONE"}, by : Nat]]
        BY DEF NoAnswer
    <2>3. runner \in [Runners -> [at : RunnerStages, work : Executions \cup {Nobody}, token : Nat]]
        BY DEF IdleRunner, RunnerStages
    <2>4. expired \in [Executions -> BOOLEAN]
        OBVIOUS
    <2>5. /\ kind \in [Executions -> Kinds \cup {"NONE"}]
          /\ exec \in [Executions -> ExecutionStatus] /\ fencing \in [Executions -> Nat]
          /\ holder \in [Executions -> Runners \cup {Nobody}] /\ output \in [Executions -> Nat]
          /\ sends \in [Executions -> SUBSET Nat]
        BY DEF ExecutionStatus, Kinds
    <2> QED
        BY <2>1, <2>2, <2>3, <2>4, <2>5, <2>6 DEF ExecutionTypeOK
<1>2. CommandTypeOK
    BY DEF CommandTypeOK, CommandStatus
<1>3. OutputIsOfCompleted /\ CommandAppliedOnce
    BY DEF OutputIsOfCompleted, CommandAppliedOnce, Applied
<1>4. WorksOnExecution
    BY DEF WorksOnExecution, IdleRunner
<1> QED
    BY <1>1, <1>2, <1>3, <1>4 DEF CommandInv

\* A step of a process that leaves every claim as it is.
LEMMA QuietStep ==
    ASSUME CommandInv, UNCHANGED <<kind, exec, fencing, holder, output, commandVars>>,
           expired' \in [Executions -> BOOLEAN], response' \in [Executions -> Answers],
           \A e \in Executions : Rests(e),
           sends' \in [Executions -> SUBSET Nat], runner' \in [Runners -> Processes],
           WorksOnExecution', suspended' \in BOOLEAN, suspensions' \in 0..SuspendBound
    PROVE  StepKeeps
<1> USE DEF CommandInv
<1>1. ExecutionTypeOK'
    BY DEF ExecutionTypeOK, Answers, Processes
<1>2. CommandTypeOK' /\ CommandAppliedOnce'
    BY DEF commandVars, CommandTypeOK, CommandAppliedOnce
<1>3. OutputIsOfCompleted'
    BY DEF OutputIsOfCompleted
<1>4. \A e \in Executions : LeaseMoves(e)
    BY DEF LeaseMoves
<1> QED
    BY <1>1, <1>2, <1>3, <1>4 DEF StepKeeps

LEMMA ClaimedRow ==
    ASSUME NEW r \in Processes
    PROVE  LET row == [r EXCEPT !.at = "claimed", !.token = @ + 1]
           IN  row \in Processes /\ row.work = r.work
<1> DEFINE t == r.token + 1
<1>1. t \in Nat
    BY DEF Processes
<1> HIDE DEF t
<1>2. [r EXCEPT !.at = "claimed", !.token = t] \in Processes
    BY <1>1 DEF Processes, RunnerStages
<1>3. [r EXCEPT !.at = "claimed", !.token = t].work = r.work
    BY DEF Processes
<1> QED
    BY <1>2, <1>3 DEF t

\* A process moves on, or back to idle.
LEMMA GotoKeeps ==
    ASSUME CommandInv, NEW w \in Runners, NEW s \in RunnerStages, runner[w].at # "idle",
           Goto(w, s) \/ GoIdle(w)
    PROVE  runner' \in [Runners -> Processes] /\ WorksOnExecution'
<1>1. runner \in [Runners -> Processes] /\ runner[w] \in Processes
    BY DEF CommandInv, ExecutionTypeOK, Processes
<1>2. CASE GoIdle(w)
    <2>1. IdleRunner \in Processes /\ IdleRunner.at = "idle"
        BY DEF IdleRunner, Processes, RunnerStages
    <2> QED
        BY <1>1, <1>2, <2>1 DEF GoIdle, WorksOnExecution, CommandInv
<1>3. CASE Goto(w, s)
    <2> DEFINE row == [runner[w] EXCEPT !.at = s]
    <2>1. row \in Processes /\ row.work = runner[w].work
        BY <1>1 DEF Processes
    <2>2. runner' = [runner EXCEPT ![w] = row]
        BY <1>1, <1>3 DEF Goto
    <2> HIDE DEF row
    <2> QED
        BY <1>1, <2>1, <2>2 DEF WorksOnExecution, CommandInv
<1> QED
    BY <1>2, <1>3

\* What is written to the Channel: a text only while the execution is CLAIMED.
LEMMA ShownKeeps ==
    ASSUME CommandInv, NEW w \in Runners, NEW state \in {"STREAMING", "DONE"}, runner[w].at # "idle",
           Writable(runner[w].work), response' = Shown(w, state),
           UNCHANGED <<exec, output>>
    PROVE  response' \in [Executions -> Answers] /\ \A e \in Executions : Rests(e)
<1> DEFINE answer == [state |-> state, by |-> runner[w].token]
<1>1. answer \in Answers /\ response \in [Executions -> Answers]
    BY DEF CommandInv, ExecutionTypeOK, Answers
<1>2. response' = [response EXCEPT ![runner[w].work] = answer]
    BY DEF Shown
<1> HIDE DEF answer
<1> QED
    BY <1>1, <1>2 DEF Writable, Rests, ExecutionEnds

LEMMA BegunKeeps ==
    ASSUME CommandInv, NEW d \in Executions, response' = Begun(d), UNCHANGED <<exec, output>>
    PROVE  response' \in [Executions -> Answers] /\ \A e \in Executions : Rests(e)
<1>1. Placeholder \in Answers /\ response \in [Executions -> Answers]
    BY DEF CommandInv, ExecutionTypeOK, Answers, Placeholder
<1>2. CASE response[d] = NoAnswer
    BY <1>1, <1>2 DEF Begun, Rests
<1>3. CASE response[d] # NoAnswer
    BY <1>1, <1>3 DEF Begun, Rests
<1> QED
    BY <1>2, <1>3

\* Executions of E that were unfinished, or unfinished and CLAIMED, end.
LEMMA TerminatedKeeps ==
    ASSUME CommandInv, NEW E \in SUBSET Executions, \A e \in E : exec[e] \in Unfinished,
           NEW status \in ExecutionEnds \ {"COMPLETED"}, Terminated(E, status),
           UNCHANGED <<commandVars, kind, output, response, sends, runner>>,
           suspended' \in BOOLEAN, suspensions' \in 0..SuspendBound
    PROVE  StepKeeps
<1> USE DEF CommandInv, Terminated, ExecutionEnds, Unfinished
<1>1. /\ exec' \in [Executions -> ExecutionStatus] /\ fencing' \in [Executions -> Nat]
    BY DEF ExecutionTypeOK, ExecutionStatus
<1>2. ExecutionTypeOK'
    BY <1>1 DEF ExecutionTypeOK
<1>3. CommandTypeOK' /\ CommandAppliedOnce'
    BY DEF commandVars, CommandTypeOK, CommandAppliedOnce
<1>4. OutputIsOfCompleted' /\ WorksOnExecution'
    BY DEF OutputIsOfCompleted, WorksOnExecution, ExecutionTypeOK
<1>5. ASSUME NEW e \in Executions PROVE LeaseMoves(e) /\ Rests(e)
    <2>1. CASE e \in E
        BY <2>1 DEF LeaseMoves, Rests, OutputIsOfCompleted, ExecutionTypeOK
    <2>2. CASE e \notin E
        BY <2>2 DEF LeaseMoves, Rests, ExecutionTypeOK
    <2> QED
        BY <2>1, <2>2
<1> QED
    BY <1>2, <1>3, <1>4, <1>5 DEF StepKeeps
\* A process that ends the execution it holds as COMPLETED or FAILED.
LEMMA FinishKeeps ==
    ASSUME CommandInv, NEW w \in Runners, runner[w].at # "idle", HoldsClaim(w),
           NEW status \in {"COMPLETED", "FAILED"},
           exec' = [exec EXCEPT ![runner[w].work] = status],
           output' = IF status = "COMPLETED" THEN [output EXCEPT ![runner[w].work] = runner[w].token] ELSE output,
           GoIdle(w), UNCHANGED <<commandVars, kind, fencing, holder, expired, response, sends, suspended, suspensions>>
    PROVE  StepKeeps
<1> DEFINE d == runner[w].work
<1> USE DEF CommandInv
<1>1. runner' \in [Runners -> Processes] /\ WorksOnExecution'
    BY GotoKeeps DEF RunnerStages
<1>2. /\ d \in Executions /\ exec[d] = "CLAIMED" /\ fencing[d] = runner[w].token
      /\ output[d] = 0 /\ fencing[d] \in Nat /\ fencing[d] > 0
    BY DEF HoldsClaim, WorksOnExecution, OutputIsOfCompleted, ExecutionTypeOK
<1>3. exec' = [exec EXCEPT ![d] = status]
    OBVIOUS
<1>4. output' = IF status = "COMPLETED" THEN [output EXCEPT ![d] = fencing[d]] ELSE output
    BY <1>2
<1> HIDE DEF d
<1>5. exec' \in [Executions -> ExecutionStatus] /\ output' \in [Executions -> Nat]
    BY <1>2, <1>3, <1>4 DEF ExecutionTypeOK, ExecutionStatus
<1>6. ExecutionTypeOK'
    BY <1>1, <1>5 DEF ExecutionTypeOK, Processes
<1>7. CommandTypeOK' /\ CommandAppliedOnce'
    BY DEF commandVars, CommandTypeOK, CommandAppliedOnce
<1>8. OutputIsOfCompleted'
    BY <1>2, <1>3, <1>4 DEF OutputIsOfCompleted, ExecutionTypeOK
<1>9. ASSUME NEW e \in Executions PROVE LeaseMoves(e) /\ Rests(e)
    <2>1. CASE e = d
        BY <1>2, <1>3, <1>4, <2>1 DEF LeaseMoves, Rests, ExecutionEnds, ExecutionTypeOK
    <2>2. CASE e # d
        BY <1>2, <1>3, <1>4, <2>2 DEF LeaseMoves, Rests, ExecutionTypeOK
    <2> QED
        BY <2>1, <2>2
<1> QED
    BY <1>1, <1>6, <1>7, <1>8, <1>9 DEF StepKeeps

\* Every step of the queue, of a process or of an operator.
LEMMA ExecutionStep == CommandInv /\ ExecutionNext /\ UNCHANGED commandVars => StepKeeps
<1> SUFFICES ASSUME CommandInv, ExecutionNext, UNCHANGED commandVars PROVE StepKeeps
    OBVIOUS
<1> USE ExecutionAssumption
<1> DEFINE Typed == /\ expired \in [Executions -> BOOLEAN] /\ response \in [Executions -> Answers]
                    /\ sends \in [Executions -> SUBSET Nat] /\ runner \in [Runners -> Processes]
                    /\ suspended \in BOOLEAN /\ suspensions \in 0..SuspendBound /\ WorksOnExecution
<1>0. Typed
    BY DEF CommandInv, ExecutionTypeOK, Answers, Processes
<1>r. UNCHANGED <<exec, output, response>> => \A e \in Executions : Rests(e)
    BY DEF Rests
<1> HIDE DEF Typed
<1>1. ASSUME NEW d \in Executions, NEW input \in Kinds, QueueExecution(d, input) PROVE StepKeeps
    <2>1. /\ exec[d] = "NONE" /\ exec' = [exec EXCEPT ![d] = "PENDING"] /\ kind' = [kind EXCEPT ![d] = input]
          /\ UNCHANGED <<fencing, holder, expired, output, response, sends, runner, suspended, suspensions>>
        BY <1>1 DEF QueueExecution
    <2>2. ExecutionTypeOK'
        BY <2>1 DEF CommandInv, ExecutionTypeOK, ExecutionStatus
    <2>3. CommandTypeOK' /\ CommandAppliedOnce'
        BY DEF commandVars, CommandTypeOK, CommandAppliedOnce, CommandInv
    <2>4. OutputIsOfCompleted' /\ WorksOnExecution'
        BY <2>1 DEF CommandInv, OutputIsOfCompleted, WorksOnExecution, ExecutionTypeOK
    <2>5. ASSUME NEW e \in Executions PROVE LeaseMoves(e) /\ Rests(e)
        BY <2>1 DEF CommandInv, ExecutionTypeOK, LeaseMoves, Rests, ExecutionEnds
    <2> QED
        BY <2>2, <2>3, <2>4, <2>5 DEF StepKeeps, CommandInv
<1>2. ASSUME NEW d \in Executions, ExpireClaim(d) PROVE StepKeeps
    <2>1. expired' \in [Executions -> BOOLEAN] /\ WorksOnExecution'
        BY <1>0, <1>2 DEF Typed, ExpireClaim, WorksOnExecution
    <2> QED
        BY <1>0, <1>r, <1>2, <2>1, QuietStep DEF Typed, ExpireClaim
<1>3. ASSUME NEW d \in Executions, CancelExecution(d) PROVE StepKeeps
    <2>1. output[d] = 0
        BY <1>3 DEF CancelExecution, Unfinished, CommandInv, OutputIsOfCompleted
    <2>2. output' = output
        BY <1>3, <2>1 DEF CancelExecution, CommandInv, ExecutionTypeOK
    <2> QED
        BY <1>0, <1>3, <2>2, TerminatedKeeps DEF Typed, CancelExecution, ExecutionEnds
<1>4. ASSUME NEW w \in Runners, NEW d \in Executions, Reconcile(w, d) PROVE StepKeeps
    BY <1>0, <1>4, TerminatedKeeps DEF Typed, Reconcile, ExecutionEnds, Unfinished
<1>5. ASSUME NEW w \in Runners, NEW d \in Executions, Candidate(w, d) PROVE StepKeeps
    <2> DEFINE row == [at |-> "candidate", work |-> d, token |-> fencing[d]]
    <2>1. row \in Processes
        BY DEF CommandInv, ExecutionTypeOK, Processes, RunnerStages
    <2>2. runner' = [runner EXCEPT ![w] = row]
        BY <1>5 DEF Candidate
    <2>3. runner' \in [Runners -> Processes] /\ WorksOnExecution'
        BY <1>0, <2>1, <2>2 DEF Typed, WorksOnExecution
    <2> QED
        BY <1>0, <1>r, <1>5, <2>3, QuietStep DEF Typed, Candidate, claimVars
<1>6. ASSUME NEW w \in Runners, ClaimExecution(w) PROVE StepKeeps
    <2> DEFINE d == runner[w].work
               row == [runner[w] EXCEPT !.at = "claimed", !.token = @ + 1]
    <2>1. d \in Executions /\ runner[w] \in Processes
        BY <1>0, <1>6 DEF ClaimExecution, RunnerAt, WorksOnExecution, Typed
    <2>2. row \in Processes /\ row.work = d
        BY <2>1, ClaimedRow
    <2>3. runner' = [runner EXCEPT ![w] = row]
        BY <1>0, <1>6 DEF ClaimExecution, Typed, Processes
    <2>4. /\ exec' = [exec EXCEPT ![d] = "CLAIMED"] /\ fencing' = [fencing EXCEPT ![d] = @ + 1]
          /\ holder' = [holder EXCEPT ![d] = w] /\ expired' = [expired EXCEPT ![d] = FALSE]
          /\ exec[d] \in {"PENDING", "CLAIMED"}
          /\ UNCHANGED <<kind, output, response, sends, suspended, suspensions>>
        BY <1>6 DEF ClaimExecution, Claimable
    <2> HIDE DEF d, row
    <2>5. runner' \in [Runners -> Processes] /\ WorksOnExecution'
        BY <1>0, <2>1, <2>2, <2>3 DEF Typed, WorksOnExecution
    <2>6. ExecutionTypeOK'
        <3>1. exec' \in [Executions -> ExecutionStatus] /\ fencing' \in [Executions -> Nat]
            BY <2>1, <2>4 DEF CommandInv, ExecutionTypeOK, ExecutionStatus
        <3>2. holder' \in [Executions -> Runners \cup {Nobody}] /\ expired' \in [Executions -> BOOLEAN]
            BY <2>4 DEF CommandInv, ExecutionTypeOK
        <3> QED
            BY <2>4, <2>5, <3>1, <3>2 DEF CommandInv, ExecutionTypeOK, Processes
    <2>7. CommandTypeOK' /\ CommandAppliedOnce'
        BY DEF commandVars, CommandTypeOK, CommandAppliedOnce, CommandInv
    <2>8. OutputIsOfCompleted'
        BY <2>1, <2>4 DEF CommandInv, OutputIsOfCompleted, ExecutionTypeOK
    <2>9. ASSUME NEW e \in Executions PROVE LeaseMoves(e) /\ Rests(e)
        <3>1. CASE e = d
            BY <2>1, <2>4, <3>1
               DEF LeaseMoves, Rests, CommandInv, OutputIsOfCompleted, ExecutionTypeOK, ExecutionEnds
        <3>2. CASE e # d
            BY <2>1, <2>4, <3>2 DEF LeaseMoves, Rests, CommandInv, ExecutionTypeOK
        <3> QED
            BY <3>1, <3>2
    <2> QED
        BY <2>5, <2>6, <2>7, <2>8, <2>9 DEF StepKeeps, CommandInv
<1>7. ASSUME NEW w \in Runners, MissCandidate(w) PROVE StepKeeps
    <2>1. runner' \in [Runners -> Processes] /\ WorksOnExecution'
        BY <1>7, GotoKeeps DEF MissCandidate, RunnerAt, RunnerStages
    <2> QED
        BY <1>0, <1>r, <1>7, <2>1, QuietStep DEF Typed, MissCandidate, claimVars
<1>8. ASSUME NEW w \in Runners, NEW ok \in BOOLEAN, Admit(w, ok) PROVE StepKeeps
    <2>1. /\ runner[w].at # "idle" /\ Goto(w, IF ok THEN "ready" ELSE "failing")
          /\ runner[w].work \in Executions
        BY <1>8 DEF Admit, RunnerAt, CommandInv, WorksOnExecution
    <2>2. runner' \in [Runners -> Processes] /\ WorksOnExecution'
        BY <2>1, GotoKeeps DEF RunnerStages
    <2>3. UNCHANGED <<kind, claimVars, output, sends, suspended, suspensions>>
        BY <1>8 DEF Admit
    <2>4. response' \in [Executions -> Answers] /\ \A e \in Executions : Rests(e)
        <3>1. CASE response' = Begun(runner[w].work)
            BY <2>1, <2>3, <3>1, BegunKeeps DEF claimVars
        <3>2. CASE response' = response
            BY <1>0, <1>r, <2>3, <3>2 DEF Typed, claimVars
        <3> QED
            BY <1>8, <3>1, <3>2 DEF Admit
    <2> QED
        BY <1>0, <2>2, <2>3, <2>4, QuietStep DEF Typed, claimVars
<1>9. ASSUME NEW w \in Runners, NEW ok \in BOOLEAN, ReportFailure(w, ok) PROVE StepKeeps
    <2>1. /\ runner[w].at # "idle" /\ Goto(w, "closing") /\ runner[w].work \in Executions
        BY <1>9 DEF ReportFailure, RunnerAt, CommandInv, WorksOnExecution
    <2>2. runner' \in [Runners -> Processes] /\ WorksOnExecution'
        BY <2>1, GotoKeeps DEF RunnerStages
    <2>3. UNCHANGED <<kind, claimVars, output, sends, suspended, suspensions>>
        BY <1>9 DEF ReportFailure
    <2>4. response' \in [Executions -> Answers] /\ \A e \in Executions : Rests(e)
        <3>1. CASE response' = Begun(runner[w].work)
            BY <2>1, <2>3, <3>1, BegunKeeps DEF claimVars
        <3>2. CASE response' = response
            BY <1>0, <1>r, <2>3, <3>2 DEF Typed, claimVars
        <3>3. CASE response' = Shown(w, "DONE") /\ Writable(runner[w].work)
            BY <2>1, <2>3, <3>3, ShownKeeps DEF claimVars
        <3> QED
            BY <1>9, <3>1, <3>2, <3>3 DEF ReportFailure
    <2> QED
        BY <1>0, <2>2, <2>3, <2>4, QuietStep DEF Typed, claimVars
<1>10. ASSUME NEW w \in Runners, CheckClaim(w) \/ CheckPublication(w) \/ ProviderFails(w) \/ RunnerDies(w)
       PROVE  StepKeeps
    <2>1. runner' \in [Runners -> Processes] /\ WorksOnExecution'
        BY <1>10, GotoKeeps DEF CheckClaim, CheckPublication, ProviderFails, RunnerDies, RunnerAt, RunnerStages
    <2>2. UNCHANGED <<kind, claimVars, output, response, sends, suspended, suspensions>>
        BY <1>10 DEF CheckClaim, CheckPublication, ProviderFails, RunnerDies
    <2> QED
        BY <1>0, <1>r, <2>1, <2>2, QuietStep DEF Typed, claimVars
<1>11. ASSUME NEW w \in Runners, CallProvider(w) PROVE StepKeeps
    <2>1. runner' \in [Runners -> Processes] /\ WorksOnExecution'
        BY <1>11, GotoKeeps DEF CallProvider, RunnerAt, RunnerStages
    <2>2. runner[w].token \in Nat
        BY <1>0 DEF Typed, Processes
    <2>3. sends' \in [Executions -> SUBSET Nat]
        BY <1>0, <1>11, <2>2 DEF Typed, CallProvider
    <2> QED
        BY <1>0, <1>r, <1>11, <2>1, <2>3, QuietStep DEF Typed, claimVars, CallProvider
<1>12. ASSUME NEW w \in Runners, ProviderAnswers(w) \/ Publish(w) PROVE StepKeeps
    <2>1. runner[w].at # "idle"
        BY <1>12 DEF ProviderAnswers, Publish, RunnerAt
    <2>2. runner' \in [Runners -> Processes] /\ WorksOnExecution'
        BY <1>12, GotoKeeps DEF ProviderAnswers, Publish, RunnerAt, RunnerStages
    <2>3. UNCHANGED <<kind, claimVars, output, sends, suspended, suspensions>>
        BY <1>12 DEF ProviderAnswers, Publish
    <2>4. response' \in [Executions -> Answers] /\ \A e \in Executions : Rests(e)
        <3>1. ASSUME NEW state \in {"STREAMING", "DONE"}, response' = Shown(w, state), Writable(runner[w].work)
              PROVE  response' \in [Executions -> Answers] /\ \A e \in Executions : Rests(e)
            BY <2>1, <2>3, <3>1, ShownKeeps DEF claimVars
        <3>2. CASE response' = response
            BY <1>0, <1>r, <2>3, <3>2 DEF Typed, claimVars
        <3> QED
            BY <1>12, <3>1, <3>2 DEF ProviderAnswers, Publish
    <2> QED
        BY <1>0, <2>2, <2>3, <2>4, QuietStep DEF Typed, claimVars
<1>13. ASSUME NEW w \in Runners, FinishCompleted(w) PROVE StepKeeps
    <2>1. CASE HoldsClaim(w)
        BY <1>13, <2>1, FinishKeeps DEF FinishCompleted, RunnerAt
    <2>2. CASE ~HoldsClaim(w)
        <3>1. runner' \in [Runners -> Processes] /\ WorksOnExecution'
            BY <1>13, <2>2, GotoKeeps DEF FinishCompleted, RunnerAt, RunnerStages
        <3> QED
            BY <1>0, <1>r, <1>13, <2>2, <3>1, QuietStep DEF Typed, FinishCompleted
    <2> QED
        BY <2>1, <2>2
<1>14. ASSUME NEW w \in Runners, FinishFailed(w) PROVE StepKeeps
    <2>1. CASE HoldsClaim(w)
        BY <1>14, <2>1, FinishKeeps DEF FinishFailed, RunnerAt
    <2>2. CASE ~HoldsClaim(w)
        <3>1. runner' \in [Runners -> Processes] /\ WorksOnExecution'
            BY <1>14, <2>2, GotoKeeps DEF FinishFailed, RunnerAt, RunnerStages
        <3> QED
            BY <1>0, <1>r, <1>14, <2>2, <3>1, QuietStep DEF Typed, FinishFailed
    <2> QED
        BY <2>1, <2>2
<1>15. CASE SuspendAgent
    <2>1. suspended' \in BOOLEAN
        BY <1>15 DEF SuspendAgent
    <2>2. suspensions' \in 0..SuspendBound
        BY <1>0, <1>15 DEF SuspendAgent, Typed
    <2> QED
        BY <1>15, <2>1, <2>2, TerminatedKeeps DEF SuspendAgent, ExecutionEnds
<1>16. CASE RestoreAgent
    <2>1. suspended' \in BOOLEAN
        BY <1>16 DEF RestoreAgent
    <2>2. WorksOnExecution'
        BY <1>0, <1>16 DEF RestoreAgent, Typed, WorksOnExecution
    <2> QED
        BY <1>0, <1>r, <1>16, <2>1, <2>2, QuietStep DEF RestoreAgent, Typed, claimVars
<1> QED
    BY <1>1, <1>2, <1>3, <1>4, <1>5, <1>6, <1>7, <1>8, <1>9, <1>10, <1>11, <1>12, <1>13, <1>14, <1>15, <1>16
       DEF ExecutionNext

\* Every administrative command, too.
LEMMA CommandStep == CommandInv /\ [CommandNext]_commandSystemVars => StepKeeps
<1> SUFFICES ASSUME CommandInv, [CommandNext]_commandSystemVars PROVE StepKeeps
    OBVIOUS
<1> USE ExecutionAssumption, CommandAssumption
<1> DEFINE OnCommands == /\ CommandTypeOK' /\ CommandAppliedOnce'
                         /\ UNCHANGED executionVars
<1>0. ASSUME OnCommands PROVE StepKeeps
    <2>1. ExecutionTypeOK' /\ OutputIsOfCompleted' /\ WorksOnExecution'
        BY <1>0 DEF CommandInv, executionVars, claimVars, ExecutionTypeOK, OutputIsOfCompleted, WorksOnExecution
    <2>2. \A e \in Executions : LeaseMoves(e) /\ Rests(e)
        BY <1>0 DEF LeaseMoves, Rests, executionVars, claimVars
    <2> QED
        BY <1>0, <2>1, <2>2 DEF StepKeeps, CommandInv
<1>1. CASE ExecutionNext /\ UNCHANGED commandVars
    BY <1>1, ExecutionStep
<1>2. ASSUME NEW c \in Commands, NEW type \in {"AGENT_DRAIN", "PROPOSAL"}, CreateCommand(c, type) PROVE StepKeeps
    <2> OnCommands
        BY <1>2 DEF CreateCommand, CommandInv, CommandTypeOK, CommandStatus, CommandAppliedOnce, Applied
    <2> QED
        BY <1>0
<1>3. ASSUME NEW c \in Commands, CreateCard(c) PROVE StepKeeps
    <2> OnCommands
        BY <1>3 DEF CreateCard, CommandInv, CommandTypeOK, CommandStatus, CommandAppliedOnce, Applied
    <2> QED
        BY <1>0
<1>4. ASSUME NEW c \in Commands, NEW decision \in {"CONFIRMED", "REJECTED"}, DecideCard(c, decision) PROVE StepKeeps
    <2> OnCommands
        BY <1>4 DEF DecideCard, CommandInv, CommandTypeOK, CommandStatus, CommandAppliedOnce, Applied
    <2> QED
        BY <1>0
<1>5. ASSUME NEW c \in Commands, ComeDue(c) \/ ExpireCommand(c) PROVE StepKeeps
    <2>1. CommandTypeOK'
        BY <1>5 DEF ComeDue, ExpireCommand, CommandInv, CommandTypeOK, CommandStatus
    <2>2. CommandAppliedOnce' /\ UNCHANGED executionVars
        BY <1>5 DEF ComeDue, ExpireCommand, CommandInv, CommandTypeOK, CommandAppliedOnce, Applied
    <2> QED
        BY <1>0, <2>1, <2>2
<1>6. ASSUME NEW c \in Commands, ExecuteCommand(c) PROVE StepKeeps
    <2> DEFINE D == IF order[c] = "AGENT_DRAIN" THEN Drained ELSE {}
    <2>1. /\ exec' = [e \in Executions |-> IF e \in D THEN "PENDING" ELSE exec[e]]
          /\ holder' = [e \in Executions |-> IF e \in D THEN Nobody ELSE holder[e]]
          /\ expired' = [e \in Executions |-> expired[e] /\ e \notin D]
          /\ UNCHANGED <<order, card, overdue, kind, fencing, output, response, sends, runner,
                         suspended, suspensions>>
        BY <1>6 DEF ExecuteCommand
    <2>2. \A e \in D : exec[e] = "CLAIMED"
        BY DEF Drained
    <2>3. /\ command[c] = "PENDING_APPROVAL" /\ card[c] = "CONFIRMED"
          /\ applied' = [applied EXCEPT ![c] = @ + 1]
          /\ \E status \in Applied : command' = [command EXCEPT ![c] = status]
        BY <1>6 DEF ExecuteCommand, PendingCommand, Applied
    <2> HIDE DEF D
    <2>4. ExecutionTypeOK'
        <3>1. exec' \in [Executions -> ExecutionStatus] /\ holder' \in [Executions -> Runners \cup {Nobody}]
            BY <2>1 DEF CommandInv, ExecutionTypeOK, ExecutionStatus
        <3>2. expired' \in [Executions -> BOOLEAN]
            BY <2>1 DEF CommandInv, ExecutionTypeOK
        <3> QED
            BY <2>1, <3>1, <3>2 DEF CommandInv, ExecutionTypeOK
    <2>5. CommandTypeOK'
        BY <2>1, <2>3 DEF CommandInv, CommandTypeOK, CommandStatus, Applied
    <2>6. CommandAppliedOnce'
        BY <2>1, <2>3 DEF CommandInv, CommandTypeOK, CommandAppliedOnce, Applied
    <2>7. OutputIsOfCompleted' /\ WorksOnExecution'
        BY <2>1, <2>2 DEF CommandInv, OutputIsOfCompleted, WorksOnExecution, ExecutionTypeOK
    <2>8. ASSUME NEW e \in Executions PROVE LeaseMoves(e) /\ Rests(e)
        <3>1. CASE e \in D
            BY <2>1, <2>2, <3>1
               DEF LeaseMoves, Rests, CommandInv, OutputIsOfCompleted, ExecutionTypeOK, ExecutionEnds
        <3>2. CASE e \notin D
            BY <2>1, <3>2 DEF LeaseMoves, Rests, CommandInv, ExecutionTypeOK
        <3> QED
            BY <3>1, <3>2
    <2> QED
        BY <2>4, <2>5, <2>6, <2>7, <2>8 DEF StepKeeps, CommandInv
<1>7. CASE UNCHANGED commandSystemVars
    <2> OnCommands
        BY <1>7 DEF commandSystemVars, commandVars, CommandInv, CommandTypeOK, CommandAppliedOnce
    <2> QED
        BY <1>0
<1> QED
    BY <1>1, <1>2, <1>3, <1>4, <1>5, <1>6, <1>7 DEF CommandNext

\* The invariant holds of every behaviour.
LEMMA CommandInvariant == CommandSpec => []CommandInv
<1>1. CommandInv /\ [CommandNext]_commandSystemVars => CommandInv'
    BY CommandStep DEF StepKeeps
<1> QED
    BY <1>1, CommandInitially, PTL DEF CommandSpec, commandSystemVars

\* A command takes effect once, and only confirmed, however often its confirmation
\* is repeated and whatever becomes of its processes.
THEOREM CommandsApplyOnce == CommandSpec => []CommandAppliedOnce
<1>1. CommandInv => CommandAppliedOnce
    BY DEF CommandInv
<1> QED
    BY <1>1, CommandInvariant, PTL

\* An execution that ended rests, its output and what the Channel shows of it too,
\* whatever late processes and administrators still try.
THEOREM EndedExecutionsRest == CommandSpec => EndedExecutionRests
<1>1. CommandInv /\ [CommandNext]_commandSystemVars
      => [\A e \in Executions : exec[e] \in ExecutionEnds =>
            /\ exec'[e] = exec[e] /\ output'[e] = output[e]
            /\ response'[e] = response[e]
               \/ (response[e] = NoAnswer /\ response'[e] = Placeholder)]_executionVars
    BY CommandStep DEF StepKeeps, Rests
<1> QED
    BY <1>1, CommandInvariant, PTL DEF CommandSpec, commandSystemVars, EndedExecutionRests

(***************************************************************************)
(* The refinement.                                                         *)
(***************************************************************************)
LEMMA LeaseStarts == ExecutionInit => ExecutionLease!Init
<1> SUFFICES ASSUME ExecutionInit PROVE ExecutionLease!Init
    OBVIOUS
<1> QED
    BY DEF ExecutionInit, ExecutionLease!Init

LEMMA LeaseRefines ==
    CommandInv /\ [CommandNext]_commandSystemVars => [ExecutionLease!Next]_(ExecutionLease!vars)
<1> SUFFICES ASSUME CommandInv, StepKeeps PROVE ExecutionLease!Next
    BY CommandStep
<1> DEFINE held == [e \in Executions |-> exec[e] = "CLAIMED"]
           won == [e \in Executions |-> IF output[e] = 0 THEN {} ELSE {output[e]}]
<1>1. fencing' \in [Executions -> Nat]
    BY DEF StepKeeps, CommandInv, ExecutionTypeOK
<1>2. ASSUME NEW e \in Executions
      PROVE  ExecutionLease!Grant(e) \/ ExecutionLease!Lose(e) \/ ExecutionLease!Commit(e) \/ ExecutionLease!Rest(e)
    <2>1. LeaseMoves(e)
        BY DEF StepKeeps
    <2>2. held[e] = (exec[e] = "CLAIMED") /\ held'[e] = (exec'[e] = "CLAIMED")
        OBVIOUS
    <2>3. /\ won[e] = (IF output[e] = 0 THEN {} ELSE {output[e]})
          /\ won'[e] = (IF output'[e] = 0 THEN {} ELSE {output'[e]})
        OBVIOUS
    <2>4. fencing[e] # 0
        BY DEF CommandInv, OutputIsOfCompleted, ExecutionTypeOK
    <2> HIDE DEF held, won
    <2>5. CASE /\ output[e] = 0 /\ output'[e] = 0 /\ exec'[e] = "CLAIMED" /\ fencing'[e] > fencing[e]
        BY <2>2, <2>3, <2>5 DEF ExecutionLease!Grant, held, won
    <2>6. CASE /\ exec[e] = "CLAIMED" /\ exec'[e] # "CLAIMED" /\ fencing'[e] >= fencing[e]
               /\ output[e] = 0 /\ output'[e] = 0
        BY <2>2, <2>3, <2>6 DEF ExecutionLease!Lose, held, won
    <2>7. CASE /\ exec[e] = "CLAIMED" /\ exec'[e] # "CLAIMED" /\ fencing'[e] = fencing[e]
               /\ output[e] = 0 /\ output'[e] = fencing[e]
        BY <2>2, <2>3, <2>4, <2>7 DEF ExecutionLease!Commit, held, won
    <2>8. CASE /\ fencing'[e] = fencing[e] \/ (fencing'[e] > fencing[e] /\ exec[e] # "CLAIMED")
               /\ exec'[e] = "CLAIMED" <=> exec[e] = "CLAIMED"
               /\ output'[e] = output[e]
        BY <2>2, <2>3, <2>8 DEF ExecutionLease!Rest, held, won
    <2> QED
        BY <2>1, <2>5, <2>6, <2>7, <2>8 DEF LeaseMoves
<1> QED
    BY <1>1, <1>2 DEF ExecutionLease!Next

\* Claims of executions implement FencedLease: each has a larger token than the
\* last, and only the latest can record an output, once, under every interleaving
\* of processes, expiries, cancellations, suspensions and drains.
THEOREM ExecutionsImplementLease == CommandSpec => ExecutionsAreFenced
<1> QED
    BY CommandInvariant, LeaseStarts, LeaseRefines, PTL
       DEF CommandSpec, commandSystemVars, ExecutionsAreFenced, ExecutionLease!Spec
===============================================================================
