SPECIFICATION Spec
CONSTANTS
    None = None
    Requests = {r1, r2, r3}
    Max = 2
    Faults = {"create", "late", "remove", "query", "unlabelled"}
SYMMETRY MCSymmetry
INVARIANTS
    SlotsBounded
    NoIdleSlot
    NoOrphan
    StartupSpacing
    DrainBarrier
PROPERTIES
    PoolIsSlotPool
