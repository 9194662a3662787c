SPECIFICATION Spec
CONSTANTS
    Client = {c1, c2}
    Worker = {w1, w2}
    Cloud = FALSE
    MaximumBatches = 2
    MaxLength = 2
INVARIANTS
    ReceivedStaysPending
