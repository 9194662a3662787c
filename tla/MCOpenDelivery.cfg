SPECIFICATION OpenSpec
CONSTANTS
    Message = {m1, m2}
    Grant = {g1}
    MaxItems = 2
    Chunks = 1
    Sending = {s1, s2}
    Receiving = {r1, r2}
    PageLimit = 2
    MaxRevision = 1
    MaxIntents = 1
SYMMETRY Symmetry
CONSTRAINTS
    MCBound
INVARIANTS
    NothingIsLost
    FrozenFits
PROPERTIES
    NothingAfterRevocation
    ImplementsMail
