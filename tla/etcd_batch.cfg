SPECIFICATION MCSpec
CONSTANTS
    Nodes = {n1, n2}
    n2 = n2
    Returning = {n1, n2}
    MaxVersion = 3
    MaxFaults = 1
    KvNodes = {n1}
    MaxChanges = 3
    MaxBatch = 2
    NatsChanges = 2
    KvMaxFaults = 2

PROPERTY KvContract
CHECK_DEADLOCK FALSE
