SPECIFICATION ServerFairSpec
CONSTANTS
    Request = {q1, q2, q3, q4, q5}
    maxRequests = 2
    maxQueue = 1
    Caller = {a1, a2, a3}
    Floor = 1
    Budget = 50
    MaxAttempts = 2
    MaxReqs = 4
    Conn = {c1, c2}
    Stopper = {s1, s2}
    InitialWeights = {1, 3}
    OperatorWeights = {0, 1}
    MaxWeight = 5
    StepWeight = 2
    MinRequests = 2
    MaxFailing = 40
    MaxWindow = 3
    MaxFlights = 2
    Layouts <- MCLayouts
CHECK_DEADLOCK FALSE
INVARIANTS QueueBound BudgetHolds StopLeavesNothing 
PROPERTIES EveryoneLeaves StopReturns RolloutCompletes RunReturns
