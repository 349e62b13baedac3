SPECIFICATION Spec
CONSTANTS
    Jobs = {"j1"}
    NoJob = NoJob
    Workers = {w1, w2}
    NeedsApproval = {}
    MaxAttempts <- Twice
    Cancellable = {}
    Crashes = FALSE
CHECK_DEADLOCK FALSE
PROPERTIES
    CompletionByClaimant
