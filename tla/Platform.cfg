SPECIFICATION PlatformSpec
CONSTANTS
    Calls = {"first", "again", "other"}
    NoCall = "nobody"
    Ways <- CallWays
    Key <- CallKey
    Policies = {"tokens", "cost"}
    Hard = {"tokens"}
    Limit <- PolicyLimit
    Amount <- PolicyAmount
    CostBased = {"cost"}
    ReleaseIfUnknown = {"cost"}
    Totals = {1, 3}
    Unknown = unknown
    NoUsage = nousage
    Executions = {"run"}
    Runners = {w1, w2}
    Nobody = "nobody"
    FenceBound = 3
    SuspendBound = 1
    Commands = {"order"}
    DrainNode = {w1, w2}
    Events = {"e1"}
    Callers = {c1, c2}
    Consumers = {"x1"}
    Waits = {"s1", "s2", "s3"}
    CreatedAt <- WaitAge
    NoEvent = "none"
    DeliveryLimit = 2
    ResolveLimit = 2
    Forkers = {"f1", "f2"}
    ResumeBound = 3
    Schedulers = {"s1", "s2"}
    Free = "free"
    TokenBound = 3
    Admins = {"a1", "a2"}
    MemberId <- AdminMember
    BuiltIn = "a1"
    NoLeader = "none"
    Weights = {4, 5}
    Fleet = {"n1", "n2"}
    HomeNode <- AdminHome
    Supervised = {"n2"}
    Reports = {q1, q2}
    Recipients = {"r1"}
    TermBound = 1
    UploadBound = 2
SYMMETRY PlatformSymmetry
CHECK_DEADLOCK FALSE
INVARIANTS
    PlatformTypeOK
    QuotaHolds
    OneDispatch
    SuccessIsCharged
    CommandAppliedOnce
    NoWaitLost
    ForkIsHeld
    SkillsFollowNodes
PROPERTIES
    ChargeIsFinal
    ExecutionsAreFenced
    EndedExecutionRests
    ProcessedIsFinal
    LeaseIsExclusive
    NodesInOrder
