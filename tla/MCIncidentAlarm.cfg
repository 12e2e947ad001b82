SPECIFICATION FairSpec
CONSTANTS
    ConsecutiveFailuresToTrip = 2
    HalfOpenMaxRequests = 1
    Independent <- DefaultIndependent
    Bureau <- CreditBureau
    Latency <- DefaultLatency
    SickLatency = 40
    Budget = 9
    StageABudget = 6
    ProviderBudget = 6
    OpenTimeout = 10
    AlarmThreshold = 7
PROPERTIES SickVendorPages
