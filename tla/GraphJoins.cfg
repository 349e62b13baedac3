SPECIFICATION InterventionSpec
CONSTANTS
    Keys = {"start", "a", "b", "c", "join"}
    Entry = "start"
    Exits = {"join"}
    Edges <- TridentEdges
    Conditional <- ConditionalC
    Strategy <- Majority
    Required <- One
    WaitKeys = {}
    TimedWaits = {}
    Rejectable = {}
    Effect <- NoEffect
    MaxAttempts <- One
    MaxCalls = 9
    Workers = {w1}
    Ops = {"complete"}
    Digests = {d1}
    Controls = {"cancel"}
    AttemptBound = 4
    CallBound = 1
    SeqBound = 9
    Interventions = {"skip", "reassign"}
    OperatorBound = 1
CHECK_DEADLOCK FALSE
INVARIANTS
    JoinIsEarned
    JoinOpensInTime
PROPERTIES
    JoinIsOneShot
    AttemptIsFinal
