SPECIFICATION ForkSpec
CONSTANTS
    Forkers = {"f1", "f2"}
    ResumeBound = 3
CHECK_DEADLOCK FALSE
INVARIANTS
    ReplayIsApproved
