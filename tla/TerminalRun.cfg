SPECIFICATION Spec
CONSTANTS
    Keys = {"start", "a", "b"}
    Entry = "start"
    Exits = {"a", "b"}
    Edges <- ForkEdges
    Conditional = {}
    Strategy <- AllOf
    Required <- One
    WaitKeys = {}
    TimedWaits = {}
    Rejectable = {}
    Effect <- NoEffect
    MaxAttempts <- One
    MaxCalls = 3
    Workers = {w1, w2}
    Ops = {"complete"}
    Digests = {d1}
    Controls = {}
    AttemptBound = 3
    CallBound = 1
    SeqBound = 9
CHECK_DEADLOCK FALSE
INVARIANTS
    NoActiveNodesInTerminalRun
