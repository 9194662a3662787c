SPECIFICATION MCSpec
CONSTANTS
    Client = {c1}
    Worker = {w1}
    Cloud = TRUE
    MaximumBatches = 1
    MaxLength = 2
    Message = {"m1"}
    Invalid = {}
    Address = {"n1"}
    Sending = {s1}
    Receiving = {r1}
    PageLimit = 1
    MaxVersion = 2
    MaxEpoch = 2
    Source = source
    Target = target
    Pass = {p1}
PROPERTIES
    LiveLogGetsDelivered
    LiveQueuedIsConfirmed
    LiveFrozenIsHandedOver
