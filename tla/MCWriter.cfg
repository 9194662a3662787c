SPECIFICATION MCSpec
CONSTANTS
    Record = {1, 2}
    Deps <- MCDeps
    InlineMax = 1
    Faults = {"lose_file", "lose_fragment", "lose_index", "trust"}
    Request = {q1}
    Flagged = {1}
    Secret = {}
    Publishing = {"guarded", "direct"}
    MaxLog = 4
    CallFragments = 1
    Client = {c1, c2}
    Worker = {w1, w2}
    Cloud = TRUE
    MaximumBatches = 2
    MaxLength = 2
SYMMETRY Symmetry
INVARIANTS
    TypeOK
    ExposedIsOneStream
    ExposedIsClosed
    CursorAccountsForDeliveries
    AnnouncedStaysPending
    RemoteIsPrefix
PROPERTIES
    StartedIsIrrevocable
