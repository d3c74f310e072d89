SPECIFICATION HedgeFairSpec
CONSTANTS
    b1 = b1
    b2 = b2
    q1 = q1
    q2 = q2
    None = None
    Backend = {b1, b2}
    Request = {q1, q2}
    Idempotent = {q2}
    MaxConns <- OneCapped
    MaxAttempts = 0
    RetryOn = {"connect", "timeout"}
    TripOn = {"connect", "timeout"}
    Outcome = {"ok", "reset", "abort"}
    Mode = "consecutive"
    FailureThreshold = 1
    SuccessThreshold = 1
    Timeout = 1
    MaxExtra = 1
CHECK_DEADLOCK FALSE
INVARIANTS OneAnswer  BestAnswer
PROPERTY EveryHedgeEnds
