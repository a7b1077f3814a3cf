CONSTANTS
    MaxUpdates <- MCMaxUpdates
    Coalesce = TRUE
    EveryDrains = TRUE
SPECIFICATION Spec
INVARIANTS TypeOK WriteErrorReported
PROPERTY Terminates
\* A single pull ends: its final state has no successor.
CHECK_DEADLOCK FALSE
