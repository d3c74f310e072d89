SPECIFICATION BalancerSpec
CONSTANTS
    Backend = {b1, b2}
    Reader = {r1, r2}
    Setter = {s1, s2}
    None = None
    MaxEpoch = 2
    MaxGen = 3
    Order <- MCOrder
    Ring <- MCRing
    Stacks <- MCStacks
    Weight <- MCWeight
    Tier <- MCTier
    Local <- MCLocal
    Caller = {c1, c2}
    Key = {0, 3}
    LoadNum = 125
    Samples = {1, 2}
    CounterSize = 8
    MaxLoad = 3
    MaxFlips = 2
SYMMETRY Symmetry
INVARIANTS ResultRegular NobodyStarves
PROPERTIES  NarrowingComposes 
