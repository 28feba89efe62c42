SPECIFICATION ScenarioSpec
CONSTANTS
    a1 = a1
    a2 = a2
    s1 = s1
    s2 = s2
    x1 = x1
    x2 = x2
    y1 = y1
    y2 = y2
    Async = {a1, a2}
    Sync = {s1, s2}
    Ctx = {x1, x2}
    Chan = {y1, y2}
    Null = Null
    MayFail = {a1, s1}
    MaxClock = 2
    SeqRange = 3
INVARIANTS UniqueSeq OwnAnswerOnce PoolFree
PROPERTIES Answered
CHECK_DEADLOCK FALSE
