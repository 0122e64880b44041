SPECIFICATION Spec
CONSTANTS
    flight = flight
    hotel = hotel
    lounge = lounge
    p1 = p1
    p2 = p2
    c1 = c1
    c2 = c2
    q1 = q1
    q2 = q2
    NoAspect = NoAspect
    NoOption = NoOption
    Aspect <- MCAspect
    Served <- MCServed
    Plans <- MCPlans
    Option = {o1}
    Pref <- MCPref
    PrefAspect <- MCPrefAspect
    Question <- MCQuestions
    Call <- MCCalls
    MaxSteps = 7
    Interval = 1
    MaxInvalid = 3
SYMMETRY Symmetry
INVARIANTS
    BudgetSuffices
    ReasonIsBacked
    NoDoubleCredit
    OutcomeAccounting
    RedundancyGrace
PROPERTIES
    NoLateCredit
    FollowsProtocol
CHECK_DEADLOCK FALSE
