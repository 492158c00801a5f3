CONSTANTS
    Symbol <- MCSymbol
    SSEStreams <- MCSSEStreams
    RawStreams <- MCRawStreams
    PlainBodies <- MCPlainBodies
    KnownHash <- MCKnownHash
SPECIFICATION Spec
INVARIANT NoWholeTokenWaits
INVARIANT NoCompleteEventWaits
PROPERTY ImplementsRestoredStream
CHECK_DEADLOCK FALSE
