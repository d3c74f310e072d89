SPECIFICATION Spec
CONSTANTS
    b1 = b1
    b2 = b2
    q1 = q1
    q2 = q2
    None = None
    Backend = {b1, b2}
    Request = {q1, q2}
    Idempotent = {q2}
    MaxConns <- OneCapped
    MaxAttempts = 1
    RetryOn = {"connect", "timeout"}
    TripOn = {"connect", "timeout", "5xx"}
    Outcome <- AllOutcomes
    Mode = "consecutive"
    FailureThreshold = 1
    SuccessThreshold = 1
    Timeout = 1
INVARIANTS Bulkhead AppliedOnce
