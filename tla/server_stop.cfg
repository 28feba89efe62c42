SPECIFICATION FairSpec
CONSTANTS
    Reqs = {r1, r2}
    Oneway = {r1}
    Silent = {r1}
    Names = {m1, m2}
    MaxRegister = 2
INVARIANTS CountExact ReplyOnce
PROPERTIES CloseWaits StopEnds Answered
CHECK_DEADLOCK FALSE
