SPECIFICATION Spec
CONSTANTS
    w1 = w1
    w2 = w2
    NoFile = NoFile
    Torn = Torn
    NoBatch = NoBatch
    NoReport = NoReport
    Watcher <- MCWatcher
    SaveAt <- MCSaveAt
    Goals <- MCGoals
    ExpectedStep = 2
    MaxSteps = 2
    MaxStarts = 2
INVARIANTS
    EarlyStopIsHonoured
    ActsOnItsOwnReport
PROPERTIES
    PowerOffIsJustified
    SuccessIsCheckpointed
    EveryExitIsRecorded
CHECK_DEADLOCK FALSE
