SPECIFICATION Spec
CONSTANTS
    e1 = e1
    Addrs <- All
    Local <- Own
    HarborType = 255
    Nets = {e1, e2}
    Exported <- Exports
    Flips <- MayFlip
    MaxBatch = 2
    MaxCallbacks = 3
    NoNode = NoNode
INVARIANTS AgreesWithFeed NodesExact HarborsExact 
CONSTRAINT Scenario
CHECK_DEADLOCK FALSE
