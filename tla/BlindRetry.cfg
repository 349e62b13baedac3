SPECIFICATION Spec
CONSTANTS
    Keys = {"start", "end"}
    Entry = "start"
    Exits = {"end"}
    Edges <- ChainEdges
    Conditional = {}
    Strategy <- AllOf
    Required <- One
    WaitKeys = {}
    TimedWaits = {}
    Rejectable = {}
    Effect <- RiskyEnd
    MaxAttempts <- One
    MaxCalls = 9
    Workers = {w1, w2}
    Ops = {"complete"}
    Digests = {d1}
    Controls = {}
    AttemptBound = 4
    CallBound = 1
    SeqBound = 9
CHECK_DEADLOCK FALSE
INVARIANTS
    NeverRetriedBlindly
