\* One request of a user at a time; all faults.
CONSTANTS
    Workers = {w1, w2}
    Users = {u1, u2}
    FileNames = {f1}
    h1 = h1
    h2 = h2
    Hashes <- MCHashes
    BlockLists <- MCSerialBlockLists
    MaxVersion = 1
    Versions <- MCVersions
    Limits = {1}
    Faults = {"db", "crash"}
    OneHandlerPerUser = TRUE
    NoRequest = NoRequest
    NoReply = NoReply
SPECIFICATION MetaFairSpec
INVARIANTS
    MetaTypeOK
    RowsFormOneFile
    AckedCommitIsStored
    FirstBlocksFirst
PROPERTIES
    UpdateOnlyOverOlderVersion
    ImplementsFileStore
    EveryRequestAnswered
