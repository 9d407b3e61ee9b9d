\* Six processes, one of which has died.
SPECIFICATION RaceSpec
CONSTANTS
    None = None
    dead = dead
    first = first
    second = second
    third = third
    fourth = fourth
    fifth = fifth
    Procs = {dead, first, second, third, fourth, fifth}
    MaxCrashes = 1
CHECK_DEADLOCK FALSE
INVARIANTS
    OneHolder
