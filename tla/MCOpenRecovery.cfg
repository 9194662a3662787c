SPECIFICATION OpenSpec
CONSTANTS
    Message = {m1}
    Grant = {g1}
    MaxItems = 1
    Chunks = 1
    Sending = {s1}
    Receiving = {r1}
    PageLimit = 1
    MaxRevision = 1
    MaxIntents = 2
INVARIANTS
    StoredIsRecoverable
