------------------------------- MODULE GraphFork -------------------------------
(***************************************************************************)
(* Forking a Run whose plan has nodes that must not be replayed: fork_run, *)
(* create_run and resume_run of src/scripts/lib/graph_runtime.py.          *)
(*                                                                         *)
(* fork_run creates the child PAUSED, appends a checkpoint to it and only  *)
(* then records why it is paused, in three transactions: it may be called  *)
(* twice with one key, die in between, and race with operators.            *)
(***************************************************************************)
EXTENDS Integers

CONSTANTS
    Forkers,       \* calls of fork_run with one idempotency key
    ResumeBound    \* model bound: resumptions and pauses of the child

ASSUME ForkAssumption == ResumeBound \in Nat

VARIABLES
    child,         \* GRAPH_RUNS.STATUS of the child, NONE before
    hold,          \* its ERROR_CODE is FORK_REPLAY_APPROVAL_REQUIRED
    forker,        \* how far each call got
    approval,      \* the approval request bound to the child
    resolved,      \* an operator resumed the child with a resolution
    premature,     \* an operator resumed it before any hold was recorded
    resumes        \* resumptions so far

forkVars == <<child, hold, forker, approval, resolved, premature, resumes>>

ChildStatus == {"NONE", "PAUSED", "RUNNING", "ENDED"}
ForkStages == {"new", "looked", "created", "checkpointed", "returned", "dead"}

ForkInit ==
    /\ child = "NONE" /\ hold = FALSE
    /\ forker = [f \in Forkers |-> "new"]
    /\ approval = "NONE"
    /\ resolved = FALSE /\ premature = FALSE /\ resumes = 0

ForkTo(f, s) == forker' = [forker EXCEPT ![f] = s]

StartStatus == "PAUSED"

\* create_run looks for the key, then inserts; the unique key decides a race.
LookForChild(f) ==
    /\ forker[f] = "new" /\ ForkTo(f, IF child = "NONE" THEN "looked" ELSE "created")
    /\ UNCHANGED <<child, hold, approval, resolved, premature, resumes>>

CreateChild(f) ==
    /\ forker[f] = "looked" /\ ForkTo(f, "created")
    /\ child' = IF child = "NONE" THEN StartStatus ELSE child
    /\ UNCHANGED <<hold, approval, resolved, premature, resumes>>

AppendForkCheckpoint(f) ==
    /\ forker[f] = "created" /\ ForkTo(f, "checkpointed")
    /\ UNCHANGED <<child, hold, approval, resolved, premature, resumes>>

\* The hold is recorded if the child is PAUSED; a repeated fork holds a child
\* again that was released.
HoldChild(f) ==
    /\ forker[f] = "checkpointed" /\ ForkTo(f, "returned")
    /\ hold' = (hold \/ child = "PAUSED")
    /\ UNCHANGED <<child, approval, resolved, premature, resumes>>

ForkerDies(f) ==
    /\ forker[f] \in {"looked", "created", "checkpointed"} /\ ForkTo(f, "dead")
    /\ UNCHANGED <<child, hold, approval, resolved, premature, resumes>>

\* The governed approval of GRAPH_FORK_REPLAY.
RequestApproval ==
    /\ child # "NONE" /\ approval = "NONE" /\ approval' = "PENDING"
    /\ UNCHANGED <<child, hold, forker, resolved, premature, resumes>>

DecideApproval(decision) ==
    /\ approval = "PENDING" /\ approval' = decision
    /\ UNCHANGED <<child, hold, forker, resolved, premature, resumes>>

\* Mutant: any request will do.
AcceptsAny(resolution) == resolution \in {"APPROVAL", "COMPENSATION"}

\* _fork_replay_resolution.
Accepts(resolution) ==
    resolution = "COMPENSATION" \/ (resolution = "APPROVAL" /\ approval = "APPROVED")

\* resume_run; a hold that is not resolved refuses.
ResumeChild(resolution) ==
    /\ child = "PAUSED" /\ (hold => Accepts(resolution))
    /\ resumes < ResumeBound /\ resumes' = resumes + 1
    /\ child' = "RUNNING" /\ hold' = FALSE
    /\ resolved' = (resolved \/ (hold /\ (resolution = "APPROVAL" => approval = "APPROVED")))
    /\ premature' = (premature \/ (~hold /\ \A f \in Forkers : forker[f] # "returned"))
    /\ UNCHANGED <<forker, approval>>

PauseChild ==
    /\ child = "RUNNING" /\ child' = "PAUSED"
    /\ UNCHANGED <<hold, forker, approval, resolved, premature, resumes>>

\* cancel_run, or the end of the work.
EndChild ==
    /\ child = "RUNNING" \/ child = "PAUSED"
    /\ child' = "ENDED"
    /\ UNCHANGED <<hold, forker, approval, resolved, premature, resumes>>

ForkNext ==
    \/ \E f \in Forkers : LookForChild(f) \/ CreateChild(f) \/ AppendForkCheckpoint(f)
                          \/ HoldChild(f) \/ ForkerDies(f)
    \/ RequestApproval
    \/ \E decision \in {"APPROVED", "REJECTED"} : DecideApproval(decision)
    \/ \E resolution \in {"NONE", "APPROVAL", "COMPENSATION"} : ResumeChild(resolution)
    \/ PauseChild \/ EndChild

ForkSpec == ForkInit /\ [][ForkNext]_forkVars

(***************************************************************************)
(* Correctness.                                                            *)
(***************************************************************************)
ForkTypeOK ==
    /\ child \in ChildStatus /\ hold \in BOOLEAN
    /\ forker \in [Forkers -> ForkStages]
    /\ approval \in {"NONE", "PENDING", "APPROVED", "REJECTED"}
    /\ resolved \in BOOLEAN /\ premature \in BOOLEAN /\ resumes \in 0..ResumeBound

\* Once a call of fork_run returned, a child that no operator had resumed by then
\* replays nothing without an approval bound to it or a compensation, however
\* often the fork is repeated and the child paused and resumed.  What happens in
\* the window before, premature, is what ReplayIsApproved shows.
ForkIsHeld == child = "RUNNING" => resolved \/ premature

(***************************************************************************)
(* What the documentation says, and the code does not keep while no call   *)
(* of fork_run recorded the hold: its run shows a counterexample.          *)
(***************************************************************************)
\* The child replays nothing without an approval bound to it or a compensation.
ReplayIsApproved == child = "RUNNING" => resolved
===============================================================================
