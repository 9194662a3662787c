SPECIFICATION MCSpec
CONSTANTS
    Record = {1, 2, 3, 4}
    Deps <- MCDeps
    InlineMax = 1
    Faults = {"lose_state"}
    Request = {q1}
    Flagged = {3}
    Secret = {4}
    Publishing = {"guarded", "direct"}
    MaxLog = 3
    CallFragments = 1
    Receiver = {r1}
    StageFragments = 2
PROPERTIES
    ExposedIsReviewed
    LiveDeliveriesGetPublished
    LiveEverythingArrives
