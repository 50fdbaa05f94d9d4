SPECIFICATION FairSpec
CONSTANTS
    j1 = j1
    j2 = j2
    h1 = h1
    h2 = h2
    w1 = w1
    w2 = w2
    NoJob = NoJob
    Jobs = {j1}
    Handlers = {h1}
    Workers = {w1, w2}
    Origins = {"execute"}
    MaxRetries = 2
    Successes = {"completed"}
    CancelFrom = {"pending", "running"}
    FaultKinds <- RecoverableFaults
    MaxFaults = 2
CHECK_DEADLOCK FALSE
INVARIANTS PendingAccounted CancelAbortsOwnAttempt
PROPERTY Settles
