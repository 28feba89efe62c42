SPECIFICATION FairSpec
CONSTANTS
    a1 = a1
    a2 = a2
    s1 = s1
    s2 = s2
    x1 = x1
    x2 = x2
    y1 = y1
    y2 = y2
    Async = {a1, a2}
    Sync = {}
    Ctx = {x1, x2}
    Chan = {}
    Null = Null
    MayFail = {a1}
    MaxClock = 1
    SeqRange = 4
PROPERTY Answered
CHECK_DEADLOCK FALSE
