CONSTANTS
    Key = {k1, k2, k3, k4}
    Entry = {e1, e2}
    MaxEntries = 3
SPECIFICATION CacheSpec
INVARIANT OrderMatchesEntries
PROPERTY ImplementsLRU
