SPECIFICATION EdgeSpec
CONSTANTS
    Client = {c1, c2}
    Key = {"k1", "k2"}
    RuleKey = {"r1"}
    LimiterSetups <- Setups
    RuleRate <- RateOfRule
    StoreRate <- RateOfStore
    maxEntries = 1
    idleTTL = 1
    BucketId = {1, 2, 3, 4, 5, 6, 7}
    MaxOwed = 1
    Visitor = {"v1"}
    Refresher = {"g1", "g2"}
    Base = {"u1"}
    Value = {"x", "y"}
    TTL = 1
    SWR = 1
    StoreSizes = {1, 2}
    MaxTime = 2
    Validation = {"w1", "w2"}
    Token = {"t1", "t2"}
    Second = 2
    CacheTTL = 3
    NegativeFloor = 6
    exp <- TokenExp
    cap = 1
    MaxTicks = 5
CHECK_DEADLOCK FALSE
INVARIANTS  NoFalseDenial  MarkMeansRefresh 
