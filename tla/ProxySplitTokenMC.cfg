CONSTANTS
    Symbol <- MCSymbol
    SSEStreams <- MCJSONStreams
    RawStreams <- None
    PlainBodies <- None
    KnownHash <- MCKnownHash
SPECIFICATION Spec
INVARIANT TokensSwappedBack
CHECK_DEADLOCK FALSE
