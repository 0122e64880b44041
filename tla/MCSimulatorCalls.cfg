SPECIFICATION FairSpec
CONSTANTS
    c1 = c1
    c2 = c2
    here = here
    q1 = q1
    p1 = p1
    p2 = p2
    Caller <- MCCaller
    Loop = {here}
    LoopOf <- MCLoopOf
    Question = {q1}
    Pref = {p1, p2}
    Arguments <- MCArguments
    NoPref = NoPref
    NoReply = NoReply
    NoTurn = NoTurn
    Interval = 1
    MaxAttempts = 2
    Slots = 1
INVARIANTS
    SlotsAccounted
    ReturnsContract
PROPERTIES
    FirstAnswerWins
    EveryCallEnds
CHECK_DEADLOCK FALSE
