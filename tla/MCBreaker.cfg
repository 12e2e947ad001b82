SPECIFICATION FairSpec
CONSTANTS
    c1 = c1
    c2 = c2
    Calls = {c1, c2}
    ConsecutiveFailuresToTrip = 2
    HalfOpenMaxRequests = 2
    CallerCuts = {"callerCanceled", "callerDeadline"}
INVARIANTS TypeOK TrialsBounded NotWedged
PROPERTIES ClosesOnTrial OpenShieldsVendor
PROPERTIES FetchReturns HealthyVendorNeverTripped Recovers SickVendorShed
