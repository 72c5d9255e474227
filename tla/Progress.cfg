\* A write and a close at each end.
SPECIFICATION FairSpec
CONSTANTS
    Client = Client
    Server = Server
    w1 = w1
    w2 = w2
    Links = {l1}
    Calls = {w1}
    Caller <- MCClientWrites
    Size <- MCOneByte
    ReadLens = {}
    ISN <- MCISN
    SegmentSize = 1
    WindowSize = 1
    Closers = {Client, Server}
    Concurrent = FALSE
    Timeouts = {}
    MaxSyn = 1
    MaxLoss = 1
    MaxForce = 0
    MaxNet = 2
PROPERTIES
    WriteEnds
    
CHECK_DEADLOCK FALSE
