CONSTANTS
    c1 = c1
    c2 = c2
    MaxProcs = 2
    Cmd <- TwoTerminals
    Ops <- EachItsOps
SPECIFICATION Spec
INVARIANT TypeOK
INVARIANT StopFindsServer
INVARIANT RestartWaitsForOld
INVARIANT ExitStopsModelServer
