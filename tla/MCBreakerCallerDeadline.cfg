SPECIFICATION FairSpec
CONSTANTS
    c1 = c1
    c2 = c2
    Calls = {c1, c2}
    ConsecutiveFailuresToTrip = 2
    HalfOpenMaxRequests = 2
    CallerCuts = {"callerDeadline"}
PROPERTIES CallersNeverTrip
