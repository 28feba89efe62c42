SPECIFICATION FairSpec
CONSTANTS
    a = a
    b = b
    h1 = h1
    h2 = h2
    g2 = g2
    Nodes = {a, b, h1, h2}
    Addr <- MCAddr
    HarborType = 255
    Msgs <- Mixed
    Registered = {1, 2, 3}
    Sees <- MCSees
    Told <- MCTold
    TaskQueueSize = 1
    Late = {b}
    Stoppable = {h2}
    MaxSent = 2
    MaxFaults = 1
    NoNode = NoNode
INVARIANTS TypeOK HopsBounded HandledOnce AnsweredOnce
PROPERTIES Answered
CHECK_DEADLOCK FALSE
