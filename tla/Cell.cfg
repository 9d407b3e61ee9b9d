SPECIFICATION Spec
CONSTANTS
    Faults = 2
    MaxTurns = 2
    MaxCost = 1
    MaxToolFailures = 1
    StopOnToolFailures = FALSE
    MaxCalls = 1
    TurnCosts = {0, 1}
    MaxRetries = 1
CHECK_DEADLOCK FALSE
INVARIANTS
    LogIsTrue
    SpendAccounted
    CompletedCellIsClean
    EvidenceAgrees
PROPERTY
    CellEnds
