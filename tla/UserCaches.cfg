\* Two handlers, two users, two caches, up to three rows; all faults.
CONSTANTS
    Workers = {w1, w2}
    Users = {u1, u2}
    Caches = {a1, a2}
    NoUser = NoUser
    Limits <- MCLimits
    Places = {p1, p2, p3}
    Faults = {"db", "crash"}
    NoReply = NoReply
SPECIFICATION CachesSpec
INVARIANT CachesTypeOK
PROPERTY ImplementsDirectory
SYMMETRY Symmetry
