\* Clients fetch blocks of committed files; nothing fails.
CONSTANTS
    Fetchers = {f1, f2}
    h1 = h1
    h2 = h2
    Hashes <- MCHashes
    RecentLists <- MCRecentLists
    Backlog = 1
    MaxFiles = 2
    AskStoredOnly = TRUE
    Faults = {}
    NoHash = NoHash
    NoValue = NoValue
SPECIFICATION CacheSpec
INVARIANTS
    CacheTypeOK
    ServedBlockIsTheBlock
    ServedBlockIsCached
    ExistsMeansCached
SYMMETRY Symmetry
