SPECIFICATION Spec
CONSTANTS
    Keys = {"start", "end"}
    Entry = "start"
    Exits = {"end"}
    Edges <- ChainEdges
    Conditional = {}
    Strategy <- AllOf
    Required <- One
    WaitKeys = {}
    TimedWaits = {}
    Rejectable = {}
    Effect <- RiskyEnd
    MaxAttempts <- Two
    MaxCalls = 3
    Workers = {w1, w2}
    Ops = {"heartbeat", "checkpoint", "complete", "fail", "revoke"}
    Digests = {d1, d2}
    Controls = {}
    AttemptBound = 3
    CallBound = 2
    SeqBound = 2
SYMMETRY CallSymmetry
CHECK_DEADLOCK FALSE
INVARIANTS
    TypeOK
    OneCurrentAttempt
    AttemptInv
    NoOrphanedWork
    AckIsDurable
    RetriesBounded
    NotStranded
PROPERTIES
    CommitIsCurrent
    AttemptsAreFenced
