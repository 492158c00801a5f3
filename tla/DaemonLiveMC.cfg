CONSTANTS
    c1 = c1
    c2 = c2
    MaxProcs = 2
    Cmd <- OneTerminal
    Ops <- EveryOp
SPECIFICATION FairSpec
PROPERTY StoppedDaemonExits
