SPECIFICATION PubSpec
CONSTANTS
    Record = {1, 2}
    Deps <- MCDeps
    InlineMax = 1
    Faults = {"lose_state"}
    Request = {q1}
    Flagged = {1}
    Secret = {}
    Publishing = {"guarded", "direct"}
    MaxLog = 3
    CallFragments = 1
INVARIANTS
    PendingDoesNotCompete
