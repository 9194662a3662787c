SPECIFICATION MCSpec
VIEW MCView
CONSTANTS
    Record = {"base", "claim", "fix"}
    Key = {"own", "other"}
    OwnKey = {"own"}
    Relations <- MCRelations
    Travelling <- MCTravelling
    MaxEpoch = 1
    MaxRestores = 1
    Node = {first, middle, third}
    Middle = middle
    Third = third
    Message = {"l1", "l2"}
    Second = "l2"
    Newcomer = {v1}
    Pass = {c1}
    MaxVersion = 2
    MaxLate = 1
CONSTRAINTS
    NodeBound
INVARIANTS
    NothingIsForgotten
    RetiredByItsAuthor
    CertificatesHold
    NodeStoreIsKept
PROPERTIES
    NoDemotion
    ValidatedIsVerified
CHECK_DEADLOCK FALSE
