\* Three handlers, crashes, one block that may be unreadable, weak fairness of polling.
CONSTANTS
    Procs = {p1, p2, p3}
    Hashes = {h1, h2}
    Unreadable = {h2}
    MayCrash = TRUE
    MaxRequests = 4
    NoRequest = NoRequest
    NoProc = NoProc
SPECIFICATION BlockFairSpec
INVARIANTS
    BlockTypeOK
    OpenExactlyWhileUsed
    AnsweredStoreIsStored
PROPERTIES
    AnsweredOnceDbExists
    ImplementsBlockStore
\* the bound on requests ends the run
CHECK_DEADLOCK FALSE
