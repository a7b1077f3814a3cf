CONSTANTS
    b1 = b1
    b2 = b2
    Order <- MCOrder
    Default = b1
    Times <- MCTimes
    RVs = {1}
    MaxEvents = 2
SPECIFICATION Spec
INVARIANTS
    TypeOK
    SnapshotOrder
    NoDuplicateDelivery
    NoGap
PROPERTY
    MergedStreamSafety
\* A single call ends: it returns an error or closes its channel.
CHECK_DEADLOCK FALSE
