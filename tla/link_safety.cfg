SPECIFICATION Spec
CONSTANTS
    Lo = 1
    Hi = 2
    Conn = {c1, c2, c3}
    NoConn = NoConn
    MaxPendingMsgSize = 1
    Kinds = {"zero", "deadline"}
    MayExpire = {"deadline"}
    MaxMsg = 2
    MaxFaults = 1
    MaxRestarts = 1
    Moves = TRUE
    Stoppable = {1}
INVARIANTS TypeOK PendingHasDial SocketExcludesPending AtMostOnce
CONSTRAINT Scenario
CHECK_DEADLOCK FALSE
