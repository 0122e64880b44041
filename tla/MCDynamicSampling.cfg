SPECIFICATION FairSpec
CONSTANTS
    u1 = u1
    u2 = u2
    Prompt <- MCPrompt
    GroupSize = 2
    Epsilon = 0
    MinSpread = 2
    Reward = {0, 1, 2}
    Rollouts <- MCRollouts
    Invalid = Invalid
    MaxBatches = 3
    MaxSkips = 1
    MaxUpdates = 3
INVARIANTS
    CountersServeTheirUpdate
    OnlyUsefulGroupsTrain
    SkipOnlyWhenHopeless
PROPERTIES
    SamplingEnds
CHECK_DEADLOCK FALSE
