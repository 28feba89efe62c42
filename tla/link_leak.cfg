SPECIFICATION FairSpec
CONSTANTS
    Lo = 1
    Hi = 2
    Conn = {c1, c2}
    NoConn = NoConn
    MaxPendingMsgSize = 1
    Kinds = {"deadline"}
    MayExpire = {}
    MaxMsg = 2
    MaxFaults = 0
    MaxRestarts = 0
    Moves = FALSE
    Stoppable = {}
PROPERTY Drained
CHECK_DEADLOCK FALSE
