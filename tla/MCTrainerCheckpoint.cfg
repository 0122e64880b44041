SPECIFICATION Spec
CONSTANTS
    t1 = t1
    NoFile = NoFile
    Torn = Torn
    NoBatch = NoBatch
    Task <- MCTask
    Groups <- MCGroups
    SaveAt <- MCSaveAt
    Goals <- MCGoals
    Threshold = 2
    MaxSteps = 3
    MaxStarts = 3
INVARIANTS
    TrackedIsWhole
    ResumeIsExact
    NoHardCaseMissed
PROPERTIES
    CheckpointsAreAtomic
CHECK_DEADLOCK FALSE
