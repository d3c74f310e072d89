SPECIFICATION FairSpec
CONSTANTS
    Request = {q1, q2, q3, q4}
    Mode = "consecutive"
    FailureThreshold = 2
    SuccessThreshold = 3
    Timeout = 2
INVARIANT TrialBudget
PROPERTIES CoolDown 
