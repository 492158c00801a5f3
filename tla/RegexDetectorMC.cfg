CONSTANTS
    Patterns <- MCPatterns
    MaxValues = 2
SPECIFICATION Spec
CHECK_DEADLOCK FALSE
INVARIANT EveryMatchReported
