SPECIFICATION HFFairSpec
CONSTANTS
    Backend = {"b1", "b2", "b3", "b4"}
    Request = {"r1", "r2"}
    Setups <- MCSetups
    Mode = "consecutive"
    FailureThreshold = 1
    SuccessThreshold = 1
    Timeout = 1
    HealthyThreshold = 2
    UnhealthyThreshold = 1
    Grace = 1
    MinRequests = 1
    ErrorPercent = 50
    BaseEjection = 1
    MaxEjectionPercent = 50
    Window = 1
    Attempts = 2
    MaxObs = 1
 
PROPERTIES  DeadLeaves
