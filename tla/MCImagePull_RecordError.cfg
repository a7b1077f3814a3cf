CONSTANTS
    MaxUpdates <- MCMaxUpdates
    Coalesce = TRUE
    EveryDrains = TRUE
SPECIFICATION Spec
INVARIANT RecordErrorReported
\* A single pull ends: its final state has no successor.
CHECK_DEADLOCK FALSE
