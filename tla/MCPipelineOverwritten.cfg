SPECIFICATION Spec
CONSTANTS
    c1 = c1
    c2 = c2
    NoEvent = NoEvent
    Messages = {"m1", "m2"}
    Body <- ReusedId
    Consumers = {c1, c2}
    MaxReceive = 2
    BatchSize = 2
    RequestIDs = {"r1"}
    Sources = {"bureau", "txn", "identity"}
SYMMETRY Interchangeable
INVARIANTS EveryDecisionRecorded
