\* A request to the block server may fail.
CONSTANTS
    Fetchers = {f1, f2}
    h1 = h1
    h2 = h2
    Hashes <- MCHashes
    RecentLists <- MCRecentLists
    Backlog = 1
    MaxFiles = 2
    AskStoredOnly = TRUE
    Faults = {"http"}
    NoHash = NoHash
    NoValue = NoValue
SPECIFICATION CacheSpec
INVARIANT ServedBlockIsTheBlock
