\* Two machines of a user who runs sync.py on one at a time; failing requests,
\* killed clients; files are not removed, not empty and not touched while
\* sync.py runs.
CONSTANTS
    Workers = {w1, w2}
    Users = {u1}
    User = u1
    FileNames = {f1}
    Clients = {c1, c2}
    h1 = h1
    h2 = h2
    Hashes <- MCHashes
    BlockLists <- MCBlockLists
    Versions <- MCVersions
    Limits = {}
    Contents <- MCContents
    Faults = {}
    ClientFaults = {"http", "kill"}
    OneHandlerPerUser = FALSE
    TakeTurns = TRUE
    MayRemove = FALSE
    EditWhileRunning = FALSE
    MaxEvents = 5
    NoRequest = NoRequest
    NoReply = NoReply
    NoWorker = NoWorker
    NoFile = NoFile
    NoVersion = NoVersion
    NoJob = NoJob
SPECIFICATION SyncFairSpec
INVARIANTS
    SyncTypeOK
    InSyncMeansSame
    NoMangledFile
PROPERTIES
    EditsKept
    Converges
