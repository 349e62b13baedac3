----------------------------- MODULE PlatformProofs -----------------------------
(***************************************************************************)
(* Theorems about AdminUpgrade, and about Platform: a behaviour of the      *)
(* platform is a behaviour of each of its parts, so what is proved of a    *)
(* part holds of the platform.                                             *)
(***************************************************************************)
EXTENDS Platform, ModelGatewayProofs, PlatformCommandsProofs, GraphServiceProofs

(***************************************************************************)
(* Upgrades.  That no Skill is activated before every node is HEALTHY is   *)
(* decided by a request that read the other nodes without locking them.    *)
(* The inductive invariant says why it holds: a request that moved a node  *)
(* has that node to itself, so what it is about to write is the next state *)
(* (ReportsInStep), and once it found the rest HEALTHY, no other request   *)
(* can have a node that is not (WholeIsDone).                              *)
(***************************************************************************)
InFlight(q) == report[q].stage \in {"moved", "counted"}
OnTheWay == {"PENDING", "DRAINING", "MIGRATING"}

ReportsOnNodes == \A q \in Reports : report[q].stage # "idle" => report[q].node \in Fleet
ReportsInStep ==
    \A q \in Reports : InFlight(q) =>
        /\ rollout[report[q].node] \in OnTheWay
        /\ report[q].to = NextState(rollout[report[q].node])
OneReportPerNode ==
    \A p, q \in Reports : InFlight(p) /\ InFlight(q) /\ report[p].node = report[q].node => p = q
WholeIsDone ==
    \A q \in Reports : report[q].stage = "counted" /\ report[q].whole /\ ~overtaken
                           => Whole(report[q].node, report[q].to)

UpgradeInv ==
    /\ UpgradeTypeOK /\ ReportsOnNodes /\ ReportsInStep /\ OneReportPerNode
    /\ WholeIsDone /\ SkillsFollowNodes

LEMMA UpgradeInitially == UpgradeInit => UpgradeInv
<1> SUFFICES ASSUME UpgradeInit PROVE UpgradeInv
    OBVIOUS
<1> USE AdminAssumption DEF UpgradeInit, NoReport
<1>1. UpgradeTypeOK
    <2>1. weight \in [Admins -> Weights \cup {0}]
        OBVIOUS
    <2>2. term \in 0..TermBound /\ uploads \in 0..UploadBound
        OBVIOUS
    <2>3. leader \in Admins \cup {NoLeader} /\ leased \in BOOLEAN
        BY Zenon
    <2>4. /\ plan \in PlanStatus /\ vote \in [Admins -> Ballots \cup {NoBallot}]
          /\ rollout \in [Fleet -> NodeStates] /\ skill \in [Recipients -> SkillStates]
        BY DEF PlanStatus, NodeStates, SkillStates
    <2>5. report \in [Reports -> [stage : {"idle", "leader", "allowed", "moved", "counted"},
              node : Fleet \cup {"none"}, to : NodeStates \cup {"none"}, whole : BOOLEAN]]
        OBVIOUS
    <2> QED
        BY <2>1, <2>2, <2>3, <2>4, <2>5 DEF UpgradeTypeOK
<1> QED
    BY <1>1 DEF UpgradeInv, ReportsOnNodes, ReportsInStep, InFlight, OneReportPerNode, WholeIsDone,
                SkillsFollowNodes

\* A step that leaves the nodes and the requests alone, and the plan unless it
\* does not enter SKILL_DISTRIBUTION.
LEMMA RolloutRests ==
    ASSUME UpgradeInv, UpgradeTypeOK', UNCHANGED <<rollout, report, overtaken>>,
           plan' = plan \/ plan' # "SKILL_DISTRIBUTION"
    PROVE  UpgradeInv'
BY DEF UpgradeInv, ReportsOnNodes, ReportsInStep, InFlight, OneReportPerNode, WholeIsDone, Whole, Known,
       SkillsFollowNodes

\* A step of one request, which leaves the nodes alone.
LEMMA RequestMoves ==
    ASSUME UpgradeInv, UNCHANGED <<groupVars, plan, vote, rollout, skill, uploads, overtaken>>,
           NEW q \in Reports, NEW r, ReportIs(q, r),
           r \in [stage : {"idle", "leader", "allowed", "moved", "counted"}, node : Fleet \cup {"none"},
                  to : NodeStates \cup {"none"}, whole : BOOLEAN],
           r.stage # "idle" => r.node \in Fleet,
           r.stage \in {"moved", "counted"} =>
               /\ rollout[r.node] \in OnTheWay /\ r.to = NextState(rollout[r.node])
               /\ \A p \in Reports \ {q} : InFlight(p) => report[p].node # r.node,
           r.stage = "counted" /\ r.whole => Whole(r.node, r.to)
    PROVE  UpgradeInv'
<1>1. /\ report'[q] = r /\ \A p \in Reports \ {q} : report'[p] = report[p]
      /\ report' \in [Reports -> [stage : {"idle", "leader", "allowed", "moved", "counted"},
                         node : Fleet \cup {"none"}, to : NodeStates \cup {"none"}, whole : BOOLEAN]]
    BY DEF ReportIs, UpgradeInv, UpgradeTypeOK
<1>2. UpgradeTypeOK'
    BY <1>1 DEF UpgradeInv, UpgradeTypeOK, groupVars
<1>3. ReportsOnNodes'
    BY <1>1 DEF UpgradeInv, ReportsOnNodes
<1>4. ReportsInStep'
    BY <1>1 DEF UpgradeInv, ReportsInStep, InFlight
<1>5. OneReportPerNode'
    BY <1>1 DEF UpgradeInv, OneReportPerNode, InFlight
<1>6. WholeIsDone'
    BY <1>1 DEF UpgradeInv, WholeIsDone, Whole, Known
<1>7. SkillsFollowNodes'
    BY DEF UpgradeInv, SkillsFollowNodes, Known
<1> QED
    BY <1>2, <1>3, <1>4, <1>5, <1>6, <1>7 DEF UpgradeInv

LEMMA GroupKeeps == UpgradeInv /\ GroupNext => UpgradeInv'
<1> SUFFICES ASSUME UpgradeInv, GroupNext PROVE UpgradeInv'
    OBVIOUS
<1> USE DEF UpgradeInv, UpgradeTypeOK, planVars
<1>1. CASE LeaderLeaseLapses
    <2>1. UpgradeTypeOK'
        BY <1>1 DEF LeaderLeaseLapses
    <2> QED
        BY <1>1, <2>1, RolloutRests DEF LeaderLeaseLapses
<1>2. ASSUME NEW a \in Admins, AcquireLeader(a) PROVE UpgradeInv'
    <2>1. UpgradeTypeOK'
        BY <1>2, AdminAssumption DEF AcquireLeader
    <2> QED
        BY <1>2, <2>1, RolloutRests DEF AcquireLeader
<1>3. ASSUME NEW a \in Admins, NEW w \in Weights, ApproveMember(a, w) PROVE UpgradeInv'
    <2>1. weight' = [weight EXCEPT ![a] = w] /\ UNCHANGED <<term, leader, leased, planVars>>
        BY <1>3 DEF ApproveMember
    <2>2. UpgradeTypeOK'
        BY <2>1
    <2> QED
        BY <2>1, <2>2, RolloutRests
<1> QED
    BY <1>1, <1>2, <1>3 DEF GroupNext

LEMMA PlanKeeps == UpgradeInv /\ PlanNext => UpgradeInv'
<1> SUFFICES ASSUME UpgradeInv, PlanNext PROVE UpgradeInv'
    OBVIOUS
<1> USE DEF UpgradeInv, UpgradeTypeOK, PlanStatus, groupVars
<1>1. CASE StageArchive \/ Preflight
    <2>1. UpgradeTypeOK'
        BY <1>1 DEF StageArchive, Preflight
    <2> QED
        BY <1>1, <2>1, RolloutRests DEF StageArchive, Preflight
<1>2. ASSUME NEW verdict \in Verdicts, ApproveUpgrade(verdict) PROVE UpgradeInv'
    <2>1. UpgradeTypeOK'
        BY <1>2 DEF ApproveUpgrade
    <2> QED
        BY <1>2, <2>1, RolloutRests DEF ApproveUpgrade
<1>3. ASSUME NEW a \in Admins, NEW verdict \in Verdicts, NEW t \in 0..term, VoteUpgrade(a, verdict, t)
      PROVE  UpgradeInv'
    <2>1. t \in 0..TermBound
        BY <1>3 DEF VoteUpgrade, AcceptWrite
    <2>2. vote' \in [Admins -> Ballots \cup {NoBallot}]
        BY <1>3, <2>1 DEF VoteUpgrade, Ballots
    <2>3. UpgradeTypeOK' /\ plan' # "SKILL_DISTRIBUTION"
        BY <1>3, <2>2 DEF VoteUpgrade
    <2> QED
        BY <1>3, <2>3, RolloutRests DEF VoteUpgrade
<1>4. ASSUME NEW online \in SUBSET Fleet, AutoSchedule(online) PROVE UpgradeInv'
    <2>1. /\ rollout' = [n \in Fleet |-> IF n \in online \ Known THEN "PENDING" ELSE rollout[n]]
          /\ plan' = "AUTO_SCHEDULED" /\ UNCHANGED report
          /\ overtaken' = (overtaken \/ \E n \in Known : ~RowFree(n))
        BY <1>4 DEF AutoSchedule
    <2>2. \A q \in Reports : InFlight(q) => report[q].node \in Known
        BY DEF ReportsInStep, ReportsOnNodes, OnTheWay, Known, InFlight
    <2>3. \A n \in Known : rollout'[n] = rollout[n]
        BY <2>1 DEF Known
    <2>4. UpgradeTypeOK'
        BY <1>4, AdminAssumption DEF AutoSchedule, Sent, NodeStates, SkillStates
    <2>5. WholeIsDone'
        <3>1. ~overtaken' => \A q \in Reports : ~InFlight(q)
            BY <2>1, <2>2 DEF RowFree, InFlight
        <3> QED
            BY <2>1, <3>1 DEF WholeIsDone, InFlight
    <2>6. ReportsInStep' /\ ReportsOnNodes' /\ OneReportPerNode'
        BY <2>1, <2>2, <2>3 DEF ReportsInStep, ReportsOnNodes, OneReportPerNode, InFlight
    <2> QED
        BY <2>1, <2>4, <2>5, <2>6 DEF SkillsFollowNodes
<1> QED
    BY <1>1, <1>2, <1>3, <1>4 DEF PlanNext

\* Only a commit changes a node, to the state after the one it is in.
LEMMA CommitKeeps ==
    ASSUME UpgradeInv, NEW q \in Reports, CommitNode(q)
    PROVE  /\ UpgradeInv'
           /\ \A n \in Fleet : rollout'[n] # rollout[n] => rollout'[n] = NextState(rollout[n])
<1> DEFINE n == report[q].node
           to == report[q].to
<1> USE DEF UpgradeInv, UpgradeTypeOK
<1>1. /\ report' = [report EXCEPT ![q] = NoReport] /\ rollout' = [rollout EXCEPT ![n] = to]
      /\ plan' = IF report[q].whole THEN "SKILL_DISTRIBUTION" ELSE "ROLLING"
      /\ UNCHANGED <<groupVars, vote, skill, uploads, overtaken>>
      /\ report[q].stage = "counted"
    BY DEF CommitNode, ReportIs
<1>2. n \in Fleet /\ rollout[n] \in OnTheWay /\ to = NextState(rollout[n])
    BY <1>1 DEF ReportsOnNodes, ReportsInStep, InFlight
<1>3. to \in NodeStates \ {"NONE"}
    BY <1>2 DEF OnTheWay, NextState, NodeStates
<1>4. \A p \in Reports \ {q} : InFlight(p) => report[p].node # n
    BY <1>1 DEF OneReportPerNode, InFlight
<1>5. report'[q] = NoReport /\ \A p \in Reports \ {q} : report'[p] = report[p]
    BY <1>1
<1>6. rollout'[n] = to /\ \A o \in Fleet \ {n} : rollout'[o] = rollout[o]
    BY <1>1, <1>2
<1>7. UpgradeTypeOK'
    <2>1. NoReport \in [stage : {"idle", "leader", "allowed", "moved", "counted"},
                        node : Fleet \cup {"none"}, to : NodeStates \cup {"none"}, whole : BOOLEAN]
        BY DEF NoReport
    <2> QED
        BY <1>1, <1>3, <2>1 DEF groupVars, PlanStatus
<1>8. ReportsOnNodes' /\ ReportsInStep' /\ OneReportPerNode'
    BY <1>4, <1>5, <1>6 DEF ReportsOnNodes, ReportsInStep, OneReportPerNode, InFlight, NoReport
<1>9. Known' = Known
    BY <1>2, <1>3, <1>6 DEF Known, OnTheWay
<1>10. WholeIsDone'
    <2>1. ASSUME NEW p \in Reports, report'[p].stage = "counted", report'[p].whole, ~overtaken'
          PROVE  FALSE
        <3>1. p # q /\ report[p] = report'[p]
            BY <1>5, <2>1 DEF NoReport
        <3>2. \A o \in Known \ {report[p].node} : rollout[o] = "HEALTHY"
            BY <1>1, <2>1, <3>1 DEF WholeIsDone, Whole
        <3>3. n \in Known \ {report[p].node}
            BY <1>2, <1>4, <2>1, <3>1 DEF InFlight, Known, OnTheWay
        <3> QED
            BY <1>2, <3>2, <3>3 DEF OnTheWay
    <2> QED
        BY <2>1 DEF WholeIsDone
<1>11. SkillsFollowNodes'
    <2>1. CASE report[q].whole
        BY <1>1, <1>6, <1>9, <2>1 DEF WholeIsDone, Whole, SkillsFollowNodes, Known
    <2>2. CASE ~report[q].whole
        BY <1>1, <2>2 DEF SkillsFollowNodes
    <2> QED
        BY <2>1, <2>2
<1> QED
    BY <1>2, <1>6, <1>7, <1>8, <1>10, <1>11

LEMMA RolloutKeeps ==
    UpgradeInv /\ RolloutNext =>
        /\ UpgradeInv'
        /\ \A n \in Fleet : rollout'[n] # rollout[n] => rollout'[n] = NextState(rollout[n])
<1> SUFFICES ASSUME UpgradeInv, RolloutNext
             PROVE  /\ UpgradeInv'
                    /\ \A n \in Fleet : rollout'[n] # rollout[n] => rollout'[n] = NextState(rollout[n])
    OBVIOUS
<1> DEFINE Requests == [stage : {"idle", "leader", "allowed", "moved", "counted"}, node : Fleet \cup {"none"},
                    to : NodeStates \cup {"none"}, whole : BOOLEAN]
           Goal == UpgradeInv' /\ UNCHANGED rollout
<1>0. NoReport \in Requests /\ report \in [Reports -> Requests]
    BY DEF UpgradeInv, UpgradeTypeOK, NoReport
<1>1. ASSUME NEW q \in Reports, NEW a \in Admins, SeeLeader(q, a) PROVE Goal
    <2> DEFINE r == [NoReport EXCEPT !.stage = "leader", !.node = HomeNode[a]]
    <2>1. r \in Requests /\ r.node \in Fleet /\ r.stage = "leader"
        BY <1>0, AdminAssumption DEF NoReport
    <2>2. ReportIs(q, r) /\ OnlyReports
        BY <1>1 DEF SeeLeader
    <2> HIDE DEF r
    <2> QED
        BY <2>1, <2>2, RequestMoves DEF OnlyReports
<1>2. ASSUME NEW q \in Reports, SeeLease(q) PROVE Goal
    <2> DEFINE r == IF leased THEN [report[q] EXCEPT !.stage = "allowed"] ELSE NoReport
    <2>1. r \in Requests /\ (r.stage # "idle" => r.node \in Fleet) /\ r.stage \in {"idle", "allowed"}
        BY <1>0, <1>2 DEF SeeLease, UpgradeInv, ReportsOnNodes, NoReport
    <2>2. ReportIs(q, r) /\ OnlyReports
        BY <1>2 DEF SeeLease
    <2> HIDE DEF r
    <2> QED
        BY <2>1, <2>2, RequestMoves DEF OnlyReports
<1>3. ASSUME NEW q \in Reports, NEW n \in Supervised, Supervise(q, n) PROVE Goal
    <2> DEFINE r == [NoReport EXCEPT !.stage = "allowed", !.node = n]
    <2>1. r \in Requests /\ r.node \in Fleet /\ r.stage = "allowed"
        BY <1>0, AdminAssumption DEF NoReport
    <2>2. ReportIs(q, r) /\ OnlyReports
        BY <1>3 DEF Supervise
    <2> HIDE DEF r
    <2> QED
        BY <2>1, <2>2, RequestMoves DEF OnlyReports
<1>4. ASSUME NEW q \in Reports, MoveNode(q) PROVE Goal
    <2> DEFINE n == report[q].node
               r == [report[q] EXCEPT !.stage = "moved", !.to = NextState(rollout[n])]
    <2>1. /\ rollout[n] \in OnTheWay /\ RowFree(n) /\ n \in Fleet
          /\ ReportIs(q, r) /\ OnlyReports
        BY <1>4 DEF MoveNode, OnTheWay, UpgradeInv, ReportsOnNodes
    <2>2. NextState(rollout[n]) \in NodeStates
        BY <2>1 DEF OnTheWay, NextState, NodeStates
    <2>3. r \in Requests /\ r.node = n /\ r.stage = "moved" /\ r.to = NextState(rollout[n])
        BY <1>0, <2>2
    <2>4. \A p \in Reports \ {q} : InFlight(p) => report[p].node # n
        BY <2>1 DEF RowFree, InFlight
    <2> HIDE DEF r, n
    <2> QED
        BY <2>1, <2>3, <2>4, RequestMoves DEF OnlyReports
<1>5. ASSUME NEW q \in Reports, CountNodes(q) PROVE Goal
    <2> DEFINE n == report[q].node
               r == [report[q] EXCEPT !.stage = "counted", !.whole = Whole(n, report[q].to)]
    <2>1. ReportIs(q, r) /\ OnlyReports /\ InFlight(q)
        BY <1>5 DEF CountNodes, InFlight
    <2>2. Whole(n, report[q].to) \in BOOLEAN
        BY DEF Whole
    <2>3. r \in Requests /\ r.node = n /\ r.stage = "counted" /\ r.to = report[q].to
          /\ (r.whole => Whole(n, report[q].to))
        BY <1>0, <2>2
    <2>4. n \in Fleet /\ rollout[n] \in OnTheWay /\ report[q].to = NextState(rollout[n])
        BY <2>1 DEF UpgradeInv, ReportsOnNodes, ReportsInStep, InFlight
    <2>5. \A p \in Reports \ {q} : InFlight(p) => report[p].node # n
        BY <2>1 DEF UpgradeInv, OneReportPerNode
    <2> HIDE DEF r, n
    <2> QED
        BY <2>1, <2>3, <2>4, <2>5, RequestMoves DEF OnlyReports
<1>6. ASSUME NEW q \in Reports, AbandonReport(q) PROVE Goal
    <2>1. ReportIs(q, NoReport) /\ OnlyReports /\ NoReport.stage = "idle"
        BY <1>6 DEF AbandonReport, NoReport
    <2> QED
        BY <1>0, <2>1, RequestMoves DEF OnlyReports
<1>7. ASSUME UNCHANGED <<groupVars, plan, vote, rollout, report, uploads, overtaken>>,
             skill' \in [Recipients -> SkillStates]
      PROVE  Goal
    <2>1. UpgradeTypeOK'
        BY <1>7 DEF UpgradeInv, UpgradeTypeOK, groupVars
    <2> QED
        BY <1>7, <2>1, RolloutRests
<1>8. ASSUME NEW r \in Recipients, DistributeSkill(r) PROVE Goal
    BY <1>7, <1>8 DEF DistributeSkill, Sent, UpgradeInv, UpgradeTypeOK, SkillStates
<1>9. ASSUME NEW r \in Recipients, NEW verified \in BOOLEAN, NEW safe \in BOOLEAN,
             AcknowledgeSkill(r, verified, safe)
      PROVE  Goal
    BY <1>7, <1>9 DEF AcknowledgeSkill, UpgradeInv, UpgradeTypeOK, SkillStates
<1> QED
    BY <1>1, <1>2, <1>3, <1>4, <1>5, <1>6, <1>8, <1>9, CommitKeeps DEF RolloutNext

LEMMA UpgradeStep ==
    UpgradeInv /\ [UpgradeNext]_upgradeVars =>
        /\ UpgradeInv'
        /\ \A n \in Fleet : rollout'[n] # rollout[n] =>
              \/ rollout[n] = "NONE" /\ rollout'[n] = "PENDING"
              \/ rollout'[n] = NextState(rollout[n])
<1> SUFFICES ASSUME UpgradeInv, [UpgradeNext]_upgradeVars
             PROVE  /\ UpgradeInv'
                    /\ \A n \in Fleet : rollout'[n] # rollout[n] =>
                          \/ rollout[n] = "NONE" /\ rollout'[n] = "PENDING"
                          \/ rollout'[n] = NextState(rollout[n])
    OBVIOUS
<1>1. CASE UNCHANGED upgradeVars
    <2>1. UpgradeTypeOK'
        BY <1>1 DEF UpgradeInv, UpgradeTypeOK, upgradeVars, groupVars, planVars
    <2> QED
        BY <1>1, <2>1, RolloutRests DEF upgradeVars, planVars
<1>2. CASE GroupNext
    BY <1>2, GroupKeeps DEF GroupNext, LeaderLeaseLapses, AcquireLeader, ApproveMember, planVars
<1>3. CASE PlanNext
    <2>1. \A n \in Fleet : rollout'[n] # rollout[n] => rollout[n] = "NONE" /\ rollout'[n] = "PENDING"
        BY <1>3 DEF PlanNext, StageArchive, Preflight, ApproveUpgrade, VoteUpgrade, AutoSchedule, Known
    <2> QED
        BY <1>3, <2>1, PlanKeeps
<1>4. CASE RolloutNext
    BY <1>4, RolloutKeeps
<1> QED
    BY <1>1, <1>2, <1>3, <1>4 DEF UpgradeNext

\* The inductive invariant of the upgrades.
THEOREM UpgradeInvariant == UpgradeSpec => []UpgradeInv
<1> QED
    BY UpgradeInitially, UpgradeStep, PTL DEF UpgradeSpec

\* No Skill is distributed or activated while a node of the upgrade is not HEALTHY,
\* for any fleet, any number of requests, leaders and uploads.
THEOREM SkillsComeLast == UpgradeSpec => []SkillsFollowNodes
<1>1. UpgradeInv => SkillsFollowNodes
    BY DEF UpgradeInv
<1> QED
    BY <1>1, UpgradeInvariant, PTL

\* Nodes are drained, migrated and accepted in this order, each state once.
THEOREM NodesAdvance == UpgradeSpec => NodesInOrder
<1>1. UpgradeInv /\ [UpgradeNext]_upgradeVars =>
          [\A n \in Fleet : rollout'[n] # rollout[n] =>
              \/ rollout[n] = "NONE" /\ rollout'[n] = "PENDING"
              \/ rollout'[n] = NextState(rollout[n])]_upgradeVars
    BY UpgradeStep
<1> QED
    BY <1>1, UpgradeInvariant, PTL DEF UpgradeSpec, NodesInOrder

(***************************************************************************)
(* The composition.                                                        *)
(***************************************************************************)
\* Every step of the platform is a step of one part in which the others rest.
LEMMA PartsMoveAlone ==
    [PlatformNext]_platformVars =>
        /\ [GatewayNext]_gatewayVars /\ [CommandNext]_commandSystemVars
        /\ [DeliveryNext]_deliveryVars /\ [ForkNext]_forkVars /\ [SchedulerNext]_schedulerVars
        /\ [UpgradeNext]_upgradeVars
<1> SUFFICES ASSUME [PlatformNext]_platformVars
             PROVE  /\ GatewayNext \/ UNCHANGED gatewayVars
                    /\ CommandNext \/ UNCHANGED runtimeVars
                    /\ DeliveryNext \/ UNCHANGED deliveryVars
                    /\ ForkNext \/ UNCHANGED forkVars
                    /\ SchedulerNext \/ UNCHANGED schedulerVars
                    /\ UpgradeNext \/ UNCHANGED upgradeVars
    BY DEF commandSystemVars, runtimeVars
<1>1. CASE UNCHANGED platformVars
    BY <1>1 DEF platformVars
<1>2. CASE PlatformNext
    BY <1>2 DEF PlatformNext
<1> QED
    BY <1>1, <1>2

\* The platform refines each of its parts: what is proved of a part by itself holds
\* of the platform, in which the others move, too.
THEOREM PlatformImplementsParts ==
    PlatformSpec =>
        GatewaySpec /\ CommandSpec /\ DeliverySpec /\ ForkSpec /\ SchedulerSpec /\ UpgradeSpec
<1> QED
    BY PartsMoveAlone, PTL
       DEF PlatformSpec, PlatformInit, GatewaySpec, CommandSpec, commandSystemVars, DeliverySpec,
           ForkSpec, SchedulerSpec, UpgradeSpec

\* All tables and all calls in flight keep their types.
THEOREM PlatformTypes == PlatformSpec => []PlatformTypeOK
<1>1. CommandInv => ExecutionTypeOK /\ CommandTypeOK
    BY DEF CommandInv
<1>2. GatewayTypeOK /\ ExecutionTypeOK /\ CommandTypeOK /\ DeliveryTypeOK /\ ForkTypeOK /\ SchedulerTypeOK
         /\ UpgradeTypeOK
      => PlatformTypeOK
    BY DEF PlatformTypeOK
<1>3. UpgradeInv => UpgradeTypeOK
    BY DEF UpgradeInv
<1> QED
    BY <1>1, <1>2, <1>3, PlatformImplementsParts, GatewayTypes, CommandInvariant, DeliveryTypes, ForkTypes,
       SchedulerTypes, UpgradeInvariant, PTL

\* The invariants of the parts are invariants of the platform.
THEOREM PlatformIsSafe ==
    PlatformSpec =>
        [](/\ QuotaHolds /\ OneDispatch /\ SuccessIsCharged /\ CommandAppliedOnce /\ NoWaitLost
           /\ ForkIsHeld /\ SkillsFollowNodes)
<1> QED
    BY PlatformImplementsParts, QuotaIsKept, KeyDispatchesOnce, SuccessesAreCharged, CommandsApplyOnce,
       WaitsAreReleased, ForkHeld, SkillsComeLast, PTL
===============================================================================
