\* Three processes of one host; up to two die at any step.  A process that has
\* ended stays ended, hence no deadlock check.
SPECIFICATION SearchSpec
CONSTANTS
    None = None
    dead = dead
    first = first
    second = second
    third = third
    fourth = fourth
    fifth = fifth
    Procs = {p1, p2, p3}
    MaxCrashes = 2
SYMMETRY MCSymmetry
CHECK_DEADLOCK FALSE
INVARIANTS
    SlipBreaksLease
    LoneConflictHasCause
