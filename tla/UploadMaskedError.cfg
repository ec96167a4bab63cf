\* One client; a statement of the metaserver may fail.
CONSTANTS
    Workers = {w1}
    Clients = {c1}
    u1 = u1
    Users <- MCUsers
    UserOf <- MCUserOf
    FileNames = {f1}
    h1 = h1
    h2 = h2
    Hashes <- MCHashes
    BlockLists <- MCOneBlockList
    MaxVersion = 0
    Versions <- MCVersions
    Limits = {}
    Faults = {"db"}
    OneHandlerPerUser = FALSE
    NoRequest = NoRequest
    NoReply = NoReply
    NoUpload = NoUpload
    NoWorker = NoWorker
SPECIFICATION UploadSpec
INVARIANT QueryNamesEveryMissingBlock
