SPECIFICATION TransferSpec
CONSTANTS
    Record = {1, 2}
    Deps <- MCDeps
    InlineMax = 1
    Faults = {"lose_file"}
    Request = {q1}
    Flagged = {}
    Secret = {}
    Publishing = {"direct"}
    MaxLog = 2
    CallFragments = 2
    Receiver = {r1}
    StageFragments = 2
INVARIANTS
    ContinuationIsIngestible
PROPERTIES
    ImplementsStream
