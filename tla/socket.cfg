SPECIFICATION FairSpec
CONSTANTS
    Base = 8
    sizeLen = 2
    sizeAddr = 1
    sizeCmd = 1
    lenSeq = 1
    lenPart = 1
    MaxPacketSize = 13
    PbIds = {0, 7}
    A = A
    B = B
    SelfAddr <- MCSelfAddr
    Programs <- MCPrograms
    ReplyTo <- MCReplyTo
    SendChanSize = 1
    BatchSendSize = 8
    BufSize = 8
    PipeSize = 4
INVARIANTS TypeOK InOrder CallbackLast
PROPERTIES  Released
CHECK_DEADLOCK FALSE
