SPECIFICATION FairSpec
CONSTANTS
    None = None
    Requests = {r1, r2, r3}
    Max = 1
    Faults = {"create", "remove", "hang"}
CHECK_DEADLOCK FALSE
PROPERTIES
    QueueIsFair
    CallsAnswered
