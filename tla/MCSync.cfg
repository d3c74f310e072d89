SPECIFICATION SyncFairSpec
CONSTANTS
    Mode = "consecutive"
    FailureThreshold = 1
    SuccessThreshold = 1
    Timeout = 1
    Replica = {"p1", "p2"}
    TTL = 1
    SyncFaults = {"crash", "redis"}
    MaxFlips = 1
PROPERTIES AloneRecovers OpenSpreads
