----------------------------- MODULE AdminUpgrade -----------------------------
(***************************************************************************)
(* The Admin Agent group and the upgrade it governs:                       *)
(* src/scripts/lib/admin_management.py with the decisions of admin_ha.py.  *)
(*                                                                         *)
(* Handlers that lock every row they decide on are one action.  Evidence   *)
(* of a node's maintenance is not: the Gateway looks for the leader, then  *)
(* for its lease, and the transaction that follows locks one node's row    *)
(* while it reads the others and writes the plan.                          *)
(***************************************************************************)
EXTENDS Integers, FiniteSets, FiniteSetsExt

CONSTANTS
    Admins,        \* AGENT_IDs of the Admin Agents and candidates
    MemberId,      \* the MEMBER_ID of each
    BuiltIn,       \* the native Platform Admin, which initialize() admits
    NoLeader,      \* no LEADER_MEMBER_ID
    Weights,       \* the weights an operator gives
    Fleet,         \* node ids
    HomeNode,      \* the NODE_ID of each Admin Agent
    Supervised,    \* nodes whose maintenance an operator records
    Reports,       \* requests that record maintenance
    Recipients,    \* Agents a Skill is distributed to
    TermBound,     \* model bound: CURRENT_TERM
    UploadBound    \* model bound: uploads of the archive that schedule it

ASSUME AdminAssumption ==
    /\ BuiltIn \in Admins /\ NoLeader \notin Admins
    /\ \A a \in Admins : MemberId[a] \notin Admins
    /\ Weights \subseteq Nat \ {0} /\ 5 \in Weights
    /\ HomeNode \in [Admins -> Fleet] /\ Supervised \subseteq Fleet
    /\ TermBound \in Nat /\ UploadBound \in Nat

VARIABLES
    weight,        \* WEIGHT of the voting members, 0 for a candidate
    term,          \* CURRENT_TERM; FENCING_TOKEN grows with it
    leader,        \* LEADER_MEMBER_ID
    leased,        \* LEADER_LEASE_EXPIRES_AT has not passed
    plan,          \* CX_UPGRADE_PLANS.STATUS of one archive
    vote,          \* CX_UPGRADE_APPROVALS of the Admin Agents
    rollout,       \* CX_UPGRADE_NODES.STATE of each node
    skill,         \* CX_SKILL_DISTRIBUTION of each recipient
    report,        \* how far each report for a node got
    uploads,       \* scheduling uploads so far
    overtaken      \* history: an upload passed a report on a node that was offline

groupVars == <<weight, term, leader, leased>>
planVars == <<plan, vote, rollout, skill, report, uploads, overtaken>>
upgradeVars == <<groupVars, planVars>>

PlanStatus == {"NONE", "STAGED", "PREFLIGHT", "HUMAN_APPROVAL", "REJECTED", "QUORUM_APPROVAL",
               "AUTO_SCHEDULED", "ROLLING", "SKILL_DISTRIBUTION"}
NodeStates == {"NONE", "PENDING", "DRAINING", "MIGRATING", "HEALTHY"}
SkillStates == {"NONE", "PENDING", "ACKNOWLEDGED", "FAILED", "ACTIVE"}
Verdicts == {"APPROVE", "REJECT"}
Ballots == [decision : Verdicts, term : 0..TermBound]
NoBallot == [decision |-> "NONE", term |-> 0]
NoReport == [stage |-> "idle", node |-> "none", to |-> "none", whole |-> FALSE]

UpgradeInit ==
    /\ weight = [a \in Admins |-> IF a = BuiltIn THEN 5 ELSE 0]
    /\ term = 0 /\ leader = NoLeader /\ leased = FALSE
    /\ plan = "NONE"
    /\ vote = [a \in Admins |-> NoBallot]
    /\ rollout = [n \in Fleet |-> "NONE"]
    /\ skill = [r \in Recipients |-> "NONE"]
    /\ report = [q \in Reports |-> NoReport]
    /\ uploads = 0 /\ overtaken = FALSE

(***************************************************************************)
(* The group: admission and succession.                                    *)
(***************************************************************************)
Voting(w) == {a \in Admins : w[a] > 0}

\* validate_weights: distinct, and of three no weight dominates the others.
ValidWeights(w) ==
    /\ \A a, b \in Voting(w) : w[a] = w[b] => a = b
    /\ Cardinality(Voting(w)) = 3 =>
           \A a, b, c \in Voting(w) : Cardinality({a, b, c}) = 3 => w[a] + w[b] > w[c]

\* approve_admin_member.  A refusal marks the group CONFIGURATION_INVALID and
\* raises, which rolls the mark back: the group is always VALID.  The weight given
\* here is the member's for good: set_member_weight first makes rows of the
\* columns of the one row it read, which raises whenever the group has a member.
ApproveMember(a, w) ==
    /\ weight[a] = 0 /\ ValidWeights([weight EXCEPT ![a] = w])
    /\ weight' = [weight EXCEPT ![a] = w]
    /\ UNCHANGED <<term, leader, leased, planVars>>

LeaderCandidate(a) == a \in Voting(weight) /\ \A b \in Voting(weight) : weight[b] <= weight[a]

\* acquire_leader does not ask whether the lease of the present leader runs.
AcquireLeader(a) ==
    /\ LeaderCandidate(a) /\ term < TermBound
    /\ term' = term + 1 /\ leader' = a /\ leased' = TRUE
    /\ UNCHANGED <<weight, planVars>>

LeaderLeaseLapses ==
    /\ leased /\ leased' = FALSE
    /\ UNCHANGED <<weight, term, leader, planVars>>

(***************************************************************************)
(* The plan: staging, scheduling, approvals.                               *)
(***************************************************************************)
StageArchive ==
    /\ plan = "NONE" /\ plan' = "STAGED"
    /\ UNCHANGED <<groupVars, vote, rollout, skill, report, uploads, overtaken>>

Known == {n \in Fleet : rollout[n] # "NONE"}

\* Mutant: the row of the node is read without a lock.
RowFreeAlways(n) == TRUE

RowFree(n) == \A q \in Reports : report[q].stage \in {"moved", "counted"} => report[q].node # n

Sent(s) == IF s = "ACTIVE" THEN s ELSE "PENDING"

\* auto_schedule_upgrade, at the end of every upload of the archive, for the
\* nodes that are online.  It holds the plan's row while it waits for their
\* rows; maintenance waits the other way round, and the database breaks the
\* circle by aborting one of them.
AutoSchedule(online) ==
    /\ plan \notin {"NONE", "AUTO_SCHEDULED"} /\ uploads < UploadBound
    /\ online # {} /\ \A n \in Known \cap online : RowFree(n)
    /\ rollout' = [n \in Fleet |-> IF n \in online \ Known THEN "PENDING" ELSE rollout[n]]
    /\ skill' = [r \in Recipients |-> Sent(skill[r])]
    /\ plan' = "AUTO_SCHEDULED" /\ uploads' = uploads + 1
    /\ overtaken' = (overtaken \/ \E n \in Known : ~RowFree(n))
    /\ UNCHANGED <<groupVars, vote, report>>

Preflight ==
    /\ plan = "STAGED" /\ plan' = "PREFLIGHT"
    /\ UNCHANGED <<groupVars, vote, rollout, skill, report, uploads, overtaken>>

\* approve_upgrade, by somebody else than the submitter.
ApproveUpgrade(verdict) ==
    /\ plan = "PREFLIGHT"
    /\ plan' = IF verdict = "APPROVE" THEN "HUMAN_APPROVAL" ELSE "REJECTED"
    /\ UNCHANGED <<groupVars, vote, rollout, skill, report, uploads, overtaken>>

\* accept_write, called with lease_valid=True.
AcceptWrite(t) == t = term

WeightOf(S) == MapThenSumSet(LAMBDA a : weight[a], S)
Majority(S) ==
    /\ 2 * Cardinality(S) > Cardinality(Voting(weight))
    /\ 2 * WeightOf(S) > WeightOf(Voting(weight))

Approvers(v, t) == {a \in Admins : v[a] = [decision |-> "APPROVE", term |-> t]}

\* quorum: the members are identified by MEMBER_ID, the approvals vote_upgrade
\* hands over by the AGENT_ID of who voted.
Accepted(v, t) == {a \in Voting(weight) : MemberId[a] \in Approvers(v, t)}
QuorumReached(v, t) == ValidWeights(weight) /\ Majority(Accepted(v, t))

VoteUpgrade(a, verdict, t) ==
    /\ plan = "HUMAN_APPROVAL" /\ AcceptWrite(t) /\ a \in Voting(weight)
    /\ vote' = [vote EXCEPT ![a] = [decision |-> verdict, term |-> t]]
    /\ plan' = IF QuorumReached(vote', t) THEN "QUORUM_APPROVAL" ELSE "HUMAN_APPROVAL"
    /\ UNCHANGED <<groupVars, rollout, skill, report, uploads, overtaken>>

(***************************************************************************)
(* The rollout.                                                            *)
(***************************************************************************)
ReportIs(q, r) == report' = [report EXCEPT ![q] = r]
OnlyReports == UNCHANGED <<groupVars, plan, vote, rollout, skill, uploads, overtaken>>

\* advance_upgrade_node_from_gateway: the leader, then its lease.
SeeLeader(q, a) ==
    /\ report[q].stage = "idle" /\ leader = a /\ a \in Voting(weight)
    /\ ReportIs(q, [NoReport EXCEPT !.stage = "leader", !.node = HomeNode[a]])
    /\ OnlyReports

SeeLease(q) ==
    /\ report[q].stage = "leader"
    /\ ReportIs(q, IF leased THEN [report[q] EXCEPT !.stage = "allowed"] ELSE NoReport)
    /\ OnlyReports

\* advance_upgrade_node, an operator's.
Supervise(q, n) ==
    /\ report[q].stage = "idle"
    /\ ReportIs(q, [NoReport EXCEPT !.stage = "allowed", !.node = n])
    /\ OnlyReports

NextState(s) == CASE s = "PENDING" -> "DRAINING" [] s = "DRAINING" -> "MIGRATING"
                  [] s = "MIGRATING" -> "HEALTHY" [] OTHER -> "none"
OthersRest(n) == \A o \in Fleet \ {n} : rollout[o] \notin {"DRAINING", "MIGRATING"}

\* _advance_upgrade_node locks the node's row, decides, and updates it; nothing
\* is visible before its commit.
MoveNode(q) == LET n == report[q].node IN
    /\ report[q].stage = "allowed" /\ RowFree(n)
    /\ rollout[n] \in {"PENDING", "DRAINING", "MIGRATING"}
    /\ rollout[n] = "PENDING" => OthersRest(n)
    /\ ReportIs(q, [report[q] EXCEPT !.stage = "moved", !.to = NextState(rollout[n])])
    /\ OnlyReports

\* Mutant: a node that migrates counts as done.
WholeOnceAllMove(n, to) ==
    /\ to = "HEALTHY"
    /\ \A o \in Known \ {n} : rollout[o] \in {"MIGRATING", "HEALTHY"}

\* What the count of the remaining nodes sees: its own row and committed ones.
Whole(n, to) == to = "HEALTHY" /\ \A o \in Known \ {n} : rollout[o] = "HEALTHY"

CountNodes(q) ==
    /\ report[q].stage = "moved"
    /\ ReportIs(q, [report[q] EXCEPT !.stage = "counted",
                                      !.whole = Whole(report[q].node, report[q].to)])
    /\ OnlyReports

CommitNode(q) ==
    /\ report[q].stage = "counted" /\ ReportIs(q, NoReport)
    /\ rollout' = [rollout EXCEPT ![report[q].node] = report[q].to]
    /\ plan' = IF report[q].whole THEN "SKILL_DISTRIBUTION" ELSE "ROLLING"
    /\ UNCHANGED <<groupVars, vote, skill, uploads, overtaken>>

\* A refusal, a lost connection, or the victim of a deadlock.
AbandonReport(q) ==
    /\ report[q].stage \in {"allowed", "moved", "counted"} /\ ReportIs(q, NoReport)
    /\ OnlyReports

DistributeSkill(r) ==
    /\ plan = "SKILL_DISTRIBUTION" /\ skill' = [skill EXCEPT ![r] = Sent(@)]
    /\ UNCHANGED <<groupVars, plan, vote, rollout, report, uploads, overtaken>>

\* acknowledge_upgrade_skill: an active Skill is not reverted.
AcknowledgeSkill(r, verified, safe) ==
    /\ plan = "SKILL_DISTRIBUTION" /\ skill[r] \notin {"NONE", "ACTIVE"}
    /\ skill' = [skill EXCEPT ![r] = IF ~verified THEN "FAILED"
                                     ELSE IF safe THEN "ACTIVE" ELSE "ACKNOWLEDGED"]
    /\ UNCHANGED <<groupVars, plan, vote, rollout, report, uploads, overtaken>>

GroupNext ==
    \/ LeaderLeaseLapses
    \/ \E a \in Admins : AcquireLeader(a)
    \/ \E a \in Admins, w \in Weights : ApproveMember(a, w)

PlanNext ==
    \/ StageArchive \/ Preflight
    \/ \E online \in SUBSET Fleet : AutoSchedule(online)
    \/ \E verdict \in Verdicts : ApproveUpgrade(verdict)
    \/ \E a \in Admins, verdict \in Verdicts, t \in 0..term : VoteUpgrade(a, verdict, t)

RolloutNext ==
    \/ \E q \in Reports : SeeLease(q) \/ MoveNode(q) \/ CountNodes(q) \/ CommitNode(q)
                           \/ AbandonReport(q)
    \/ \E q \in Reports, a \in Admins : SeeLeader(q, a)
    \/ \E q \in Reports, n \in Supervised : Supervise(q, n)
    \/ \E r \in Recipients : DistributeSkill(r)
    \/ \E r \in Recipients, verified \in BOOLEAN, safe \in BOOLEAN :
           AcknowledgeSkill(r, verified, safe)

UpgradeNext == GroupNext \/ PlanNext \/ RolloutNext

UpgradeSpec == UpgradeInit /\ [][UpgradeNext]_upgradeVars

(***************************************************************************)
(* Correctness.                                                            *)
(***************************************************************************)
UpgradeTypeOK ==
    /\ weight \in [Admins -> Weights \cup {0}] /\ term \in 0..TermBound
    /\ leader \in Admins \cup {NoLeader} /\ leased \in BOOLEAN
    /\ plan \in PlanStatus /\ vote \in [Admins -> Ballots \cup {NoBallot}]
    /\ rollout \in [Fleet -> NodeStates] /\ skill \in [Recipients -> SkillStates]
    /\ report \in [Reports ->
           [stage : {"idle", "leader", "allowed", "moved", "counted"}, node : Fleet \cup {"none"},
            to : NodeStates \cup {"none"}, whole : BOOLEAN]]
    /\ uploads \in 0..UploadBound /\ overtaken \in BOOLEAN

\* While a Skill can be activated every node of the upgrade is HEALTHY, although
\* the transaction that decides so reads the other nodes without locking them
\* and the archive may be uploaded again, with more nodes online, meanwhile.  The
\* exception: an upload does not lock the row of a node that is offline, and a
\* report on it that was counted before may then close an upgrade that has grown.
SkillsFollowNodes ==
    plan = "SKILL_DISTRIBUTION" /\ ~overtaken => \A n \in Known : rollout[n] = "HEALTHY"

\* A node goes from PENDING through DRAINING and MIGRATING to HEALTHY, one state
\* at a time and never back, whichever requests, leaders and uploads overlap.
NodesInOrder ==
    [][\A n \in Fleet : rollout'[n] # rollout[n] =>
          \/ rollout[n] = "NONE" /\ rollout'[n] = "PENDING"
          \/ rollout'[n] = NextState(rollout[n])]_upgradeVars

(***************************************************************************)
(* What vote_upgrade is for, and the code does not do: its run shows a     *)
(* counterexample.                                                         *)
(***************************************************************************)
\* The vote with which the approvals of one term are a majority of the voting
\* members, by count and by weight, approves the upgrade.
MajorityApproves ==
    [][vote' # vote /\ Majority(Voting(weight) \cap Approvers(vote', term))
          => plan' = "QUORUM_APPROVAL"]_upgradeVars
===============================================================================
