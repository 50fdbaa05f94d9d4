SPECIFICATION PanelSpec
CONSTANTS
    w1 = w1
    Writers = {w1}
    Batch = 2
    MaxLogs = 4
    MaxStreams = 3
    FaultKinds = {"open", "logs", "status", "client", "deadline"}
    MaxFaults = 2
CHECK_DEADLOCK FALSE
INVARIANTS TypeOK NothingSkipped PanelHasNoGaps RepeatsOnlyAfterFaults
PROPERTIES EndLosesOnlyExcess StreamEnds PanelSettles
