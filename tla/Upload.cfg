\* Overlapping uploads, killed clients, dying handlers; the database answers.
CONSTANTS
    Workers = {w1, w2}
    Clients = {c1, c2}
    u1 = u1
    Users <- MCUsers
    UserOf <- MCUserOf
    FileNames = {f1}
    h1 = h1
    h2 = h2
    Hashes <- MCHashes
    BlockLists <- MCOneBlockList
    MaxVersion = 0
    Versions <- MCVersions
    Limits = {}
    Faults = {"crash"}
    OneHandlerPerUser = FALSE
    NoRequest = NoRequest
    NoReply = NoReply
    NoUpload = NoUpload
    NoWorker = NoWorker
SPECIFICATION UploadFairSpec
INVARIANTS
    CommittedBlocksStored
    QueryNamesEveryMissingBlock
PROPERTY UploadEnds
