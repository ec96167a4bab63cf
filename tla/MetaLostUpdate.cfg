\* Two clients of one user commit at the same time; no fault.
CONSTANTS
    Workers = {w1, w2}
    Users = {u1}
    FileNames = {f1}
    h1 = h1
    h2 = h2
    Hashes <- MCHashes
    BlockLists <- MCFewBlockLists
    MaxVersion = 2
    Versions <- MCVersions
    Limits = {}
    Faults = {}
    OneHandlerPerUser = FALSE
    NoRequest = NoRequest
    NoReply = NoReply
SPECIFICATION MetaSpec
PROPERTY UpdateOnlyOverOlderVersion
