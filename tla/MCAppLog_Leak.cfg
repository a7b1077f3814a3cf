CONSTANTS
    MaxMsgs <- MCMaxMsgs
SPECIFICATION Spec
PROPERTY RelayEndsOnCancel
\* A single call ends: its last state has no successor.
CHECK_DEADLOCK FALSE
