SPECIFICATION Spec
CONSTANTS
    w1 = w1
    w2 = w2
    m1 = m1
    m2 = m2
    v1 = v1
    Main = Main
    NoCell = NoCell
    Workers = {w1, w2}
    NumCells = 3
    ModelOf <- MCModelOf
    ProviderOf <- MCProviderOf
    ModelLimit <- MCModelLimit
    ProviderLimit = 2
    StopOnFirstFailure = FALSE
    AutoResume = FALSE
    Faults = {"lease", "plan", "open", "claim", "artifacts", "evidence", "save", "checkpoint", "outcome", "release"}
SYMMETRY MCSymmetry
INVARIANTS
    CellConservation
    ReportsAreTrue
    LeaseCoversWork
    
