SPECIFICATION MCSpec
CONSTANTS
    Record = {1, 2}
    Deps <- MCDeps
    InlineMax = 1
    Faults = {"lose_file", "lose_fragment", "trust"}
    Receiver = {r1}
    StageFragments = 1
    Signed <- MCSigned
    Message = {"m1", "m2"}
    Invalid = {"m2"}
    Address = {"n1"}
    Sending = {s1, s2}
    Receiving = {p1, p2}
    PageLimit = 1
    MaxVersion = 2
    MaxEpoch = 2
    Resource = {a1, a2}
    Other = a2
    Caller = {c1, c2}
    Second = c2
    BindRequest <- MCBindRequest
    PutRequest <- MCPutRequest
    Statuses <- MCStatuses
    MaxDocuments = 2
CONSTRAINTS
    MCBound
    SlotBound
SYMMETRY Symmetry
INVARIANTS
    KeptIsOneStream
    HeadFollowsVault
    AdmittedIsClosed
    ReceiptIsTrue
    NothingIsLost
    ConfirmedIsUnique
PROPERTIES
    HeadAdvancesByOne
    BindingsMoveOn
    ObservedRevocationHolds
    ImplementsMail
CHECK_DEADLOCK FALSE
