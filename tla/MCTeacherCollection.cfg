SPECIFICATION FairSpec
CONSTANTS
    w1 = w1
    w2 = w2
    t1 = t1
    t2 = t2
    t3 = t3
    Pass <- MCPasses
    Worker <- MCWorkers
    LogEvery = 1
    MaxRuns = 2
INVARIANTS
    NoSilentReissue
PROPERTIES
    OutcomeIsKept
    EndsUnlessAllKilled
CHECK_DEADLOCK FALSE
