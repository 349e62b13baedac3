SPECIFICATION LiveSpec
CONSTANTS
    Keys = {"start", "human", "end"}
    Entry = "start"
    Exits = {"end"}
    Edges <- WaitEdges
    Conditional = {}
    Strategy <- AllOf
    Required <- One
    WaitKeys = {"human"}
    TimedWaits = {"human"}
    Rejectable = {"end"}
    Effect <- NoEffect
    MaxAttempts <- Two
    MaxCalls = 3
    Workers = {w1, w2}
    Ops = {"heartbeat", "complete", "fail", "revoke"}
    Digests = {d1}
    Controls = {"cancel", "pause"}
    AttemptBound = 3
    CallBound = 1
    SeqBound = 9
CHECK_DEADLOCK FALSE
INVARIANTS
    SleepersCanWake
    CancelFences
PROPERTIES
    WaitEndsOnce
    OutcomeIsFinal
    AbandonedWorkReturns
    TimedWaitsEnd
