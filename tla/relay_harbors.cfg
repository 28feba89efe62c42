SPECIFICATION Spec
CONSTANTS
    a = a
    b = b
    h1 = h1
    h2 = h2
    g2 = g2
    Nodes = {a, b, h1, h2, g2}
    Addr <- MCAddr
    HarborType = 255
    Msgs <- OneCall
    Registered = {1}
    Sees <- MCSees
    Told <- MCTold
    TaskQueueSize = 1
    Late = {}
    Stoppable = {}
    MaxSent = 1
    MaxFaults = 0
    NoNode = NoNode
INVARIANT PeersAccepted
CHECK_DEADLOCK FALSE
