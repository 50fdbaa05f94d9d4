SPECIFICATION Spec
CONSTANTS
    j1 = j1
    j2 = j2
    h1 = h1
    h2 = h2
    w1 = w1
    w2 = w2
    NoJob = NoJob
    Jobs = {j1, j2}
    Handlers = {h1, h2}
    Workers = {w1, w2}
    Origins <- AllOrigins
    MaxRetries = 1
    Successes = {"completed", "completed_no_invoices"}
    CancelFrom = {"running"}
    FaultKinds <- CalmFaults
    MaxFaults = 4
CHECK_DEADLOCK FALSE
SYMMETRY Symmetry
PROPERTY KeepsContract
