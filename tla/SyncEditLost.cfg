\* One machine whose commit is interrupted by a failing statement.
CONSTANTS
    Workers = {w1}
    Users = {u1}
    User = u1
    FileNames = {f1}
    Clients = {c1}
    h1 = h1
    h2 = h2
    Hashes <- MCHashes
    BlockLists <- MCBlockLists
    Versions <- MCVersions
    Limits = {}
    Contents <- MCContents
    Faults = {"db"}
    ClientFaults = {}
    OneHandlerPerUser = FALSE
    TakeTurns = TRUE
    MayRemove = FALSE
    EditWhileRunning = FALSE
    MaxEvents = 3
    NoRequest = NoRequest
    NoReply = NoReply
    NoWorker = NoWorker
    NoFile = NoFile
    NoVersion = NoVersion
    NoJob = NoJob
SPECIFICATION SyncSpec
PROPERTY EditsKept
