SPECIFICATION Spec
CONSTANTS
    Requests = {"late"}
    Via <- Both
    DrainDelay = 2
    ShutdownTimeout = 15
    Interval = 10
    HealthyThreshold = 2
    UnhealthyThreshold = 3
INVARIANTS DeregisteredBeforeClosing
