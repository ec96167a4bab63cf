\* Any fetch, any fault, weak fairness.
CONSTANTS
    Fetchers = {f1, f2}
    h1 = h1
    h2 = h2
    Hashes <- OneHash
    RecentLists <- OneRecentList
    Backlog = 1
    MaxFiles = 1
    AskStoredOnly = FALSE
    Faults = {"http", "server", "disk", "crash"}
    NoHash = NoHash
    NoValue = NoValue
SPECIFICATION CacheFairSpec
PROPERTIES
    FetchEnds
    PrefetcherReturns
