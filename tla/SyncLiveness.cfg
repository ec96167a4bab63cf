\* Everything that can happen to machines that run at the same time and queue
\* for one handler process, which killed runs keep busy too: empty and removed
\* files, edits while sync.py runs, interrupted commits, kills, power failures.
CONSTANTS
    Workers = {w1}
    Users = {u1}
    User = u1
    FileNames = {f1}
    Clients = {c1, c2}
    h1 = h1
    h2 = h2
    Hashes <- MCHashes
    BlockLists <- MCBlockLists
    Versions <- MCVersions
    Limits = {}
    Contents <- MCWithEmpty
    Faults = {"db", "crash"}
    ClientFaults = {"http", "timeout", "kill", "power", "cache"}
    OneHandlerPerUser = FALSE
    TakeTurns = FALSE
    MayRemove = TRUE
    EditWhileRunning = TRUE
    MaxEvents = 3
    NoRequest = NoRequest
    NoReply = NoReply
    NoWorker = NoWorker
    NoFile = NoFile
    NoVersion = NoVersion
    NoJob = NoJob
SPECIFICATION SyncFairSpec
PROPERTY SyncEnds
