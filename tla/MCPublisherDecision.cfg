SPECIFICATION PubSpec
CONSTANTS
    Record = {1, 2}
    Deps <- MCDeps
    InlineMax = 2
    Faults = {}
    Request = {q1}
    Flagged = {}
    Secret = {}
    Publishing = {"guarded", "direct"}
    MaxLog = 2
    CallFragments = 1
INVARIANTS
    DecisionStands
