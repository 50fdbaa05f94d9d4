SPECIFICATION Spec
CONSTANTS
    j1 = j1
    j2 = j2
    h1 = h1
    h2 = h2
    w1 = w1
    w2 = w2
    NoJob = NoJob
    Jobs = {j1}
    Handlers = {h1}
    Workers = {w1}
    Origins = {"execute"}
    MaxRetries = 1
    Successes = {"completed"}
    CancelFrom = {"pending", "running"}
    FaultKinds = {}
    MaxFaults = 0
CHECK_DEADLOCK FALSE
PROPERTY CanceledNeverRuns
