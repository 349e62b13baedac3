SPECIFICATION LiveSpec
CONSTANTS
    Jobs = {"j1", "j2"}
    NoJob = NoJob
    Workers = {w1, w2}
    NeedsApproval = {"j1"}
    MaxAttempts <- Twice
    Cancellable = {"j1", "j2"}
    Crashes = TRUE
CHECK_DEADLOCK FALSE
INVARIANTS
    TypeOK
    AttemptsBounded
    NothingRunsUnapproved
    OneSuccess
PROPERTIES
    OutcomeIsFinal
    CancelHolds
    JobsEnd
