SPECIFICATION InstallSpec
CONSTANTS
    Offered <- MCOffered
    Time <- MCTime
    MaxRotations = 1
    q1 = q1
    q2 = q2
    OperatorRequest = {q1, q2}
    Pinned <- MCPinned
    Reviewed <- MCReviewed
    MaxGeneration = 3
    MaxStaged = 1
INVARIANTS
    PointerIsSound
    OneHistory
    TrustIsSigned
PROPERTIES
    FloorsNeverDrop
    ActiveIsAgreedTo
SYMMETRY MCRequests
CHECK_DEADLOCK FALSE
