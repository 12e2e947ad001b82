SPECIFICATION FairSpec
CONSTANTS
    Requests = {"early", "late", "rpc"}
    Via <- Both
    DrainDelay = 5
    ShutdownTimeout = 2
    Interval = 2
    HealthyThreshold = 1
    UnhealthyThreshold = 2
INVARIANTS TypeOK NothingRefused InFlightSurvives
PROPERTIES ImplementsContract Exits StartsServing
