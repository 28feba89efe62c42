SPECIFICATION MCSpec
CONSTANTS
    Nodes = {n1, n2}
    n2 = n2
    Returning = {n1, n2}
    MaxVersion = 3
    MaxFaults = 2
    KvNodes = {n1}
    MaxChanges = 3
    MaxBatch = 1
    NatsChanges = 2
    KvMaxFaults = 2
INVARIANTS TypeOK MembersCurrent AlivesCurrent ViewMatches KvViewMatches KvStaleEventsHeal
PROPERTIES Converges Contract KvContract KvConverges
CHECK_DEADLOCK FALSE
