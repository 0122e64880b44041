SPECIFICATION FairSpec
CONSTANTS
    flight = flight
    hotel = hotel
    p1 = p1
    p2 = p2
    c1 = c1
    c2 = c2
    c3 = c3
    NoAspect = NoAspect
    NoOption = NoOption
    NoReport = NoReport
    Aspect <- MCAspect
    Served <- MCAspect
    Plans <- MCPlans
    Option = {o1}
    Pref <- MCPref
    PrefAspect <- MCPrefAspect
    Question = {q1}
    Call <- MCThreeCalls
    MaxSteps = 4
    MaxTurns = 4
    Interval = 1
    MaxInvalid = 10
INVARIANT
    NaturalEndIsNotCharged
CHECK_DEADLOCK FALSE
