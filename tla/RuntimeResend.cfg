SPECIFICATION CommandSpec
CONSTANTS
    Executions = {"run"}
    Runners = {"w1", "w2"}
    Nobody = "nobody"
    FenceBound = 3
    SuspendBound = 0
    Commands = {"order"}
    DrainNode = {"w1"}
CHECK_DEADLOCK FALSE
INVARIANTS NeverResent
