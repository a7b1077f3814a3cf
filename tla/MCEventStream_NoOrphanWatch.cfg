CONSTANTS
    b1 = b1
    b2 = b2
    Order <- MCOrder
    Default = b1
    Times <- MCTimes
    RVs = {1}
    MaxEvents = 2
SPECIFICATION Spec
INVARIANT
    NoOrphanWatch
CHECK_DEADLOCK FALSE
