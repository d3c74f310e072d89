SPECIFICATION RBSpec
CONSTANTS
    Request = {q1, q2}
    Mode = "rolling"
    FailureThreshold = 2
    SuccessThreshold = 2
    Timeout = 2
    rollingBuckets = 2
    rollingWindow = 4
    minRequests = 2
    RateNum = 1
    RateDen = 2
    MaxTime = 6
    MaxEvents = 3
CHECK_DEADLOCK FALSE
INVARIANT ExactWhileYoung
PROPERTIES ImplementsBreaker ImplementsWindow TripsOnEvidence
