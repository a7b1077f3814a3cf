CONSTANTS
    MaxPlatforms <- MCMaxPlatforms
    MaxStatus <- MCMaxStatus
    SolveClosesOnError = TRUE
SPECIFICATION Spec
INVARIANT AllStatusForwarded
PROPERTY Terminates
\* A build ends: its final state has no successor.
CHECK_DEADLOCK FALSE
