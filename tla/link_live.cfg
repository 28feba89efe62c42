SPECIFICATION FairSpec
CONSTANTS
    Lo = 1
    Hi = 2
    Conn = {c1, c2}
    NoConn = NoConn
    MaxPendingMsgSize = 2
    Kinds = {"ctx"}
    MayExpire = {}
    MaxMsg = 2
    MaxFaults = 1
    MaxRestarts = 0
    Moves = FALSE
    Stoppable = {}
INVARIANT OneConnection
PROPERTIES Drained 
CHECK_DEADLOCK FALSE
