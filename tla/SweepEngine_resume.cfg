SPECIFICATION FairSpec
CONSTANTS
    w1 = w1
    w2 = w2
    m1 = m1
    m2 = m2
    v1 = v1
    Main = Main
    NoCell = NoCell
    Workers = {w1, w2}
    NumCells = 3
    ModelOf <- MCModelOf
    ProviderOf <- MCProviderOf
    ModelLimit <- MCModelLimit
    ProviderLimit = 2
    StopOnFirstFailure = TRUE
    AutoResume = TRUE
    Faults = {"checkpoint"}
INVARIANTS
    TypeOK
    InFlightWithinLimits
    PauseOverrun
PROPERTIES
    NoStartAfterAbort
    EvidenceIsFinal
    CellsFollowLifecycle
    RunEnds
