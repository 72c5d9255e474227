\* Both ends write and both close, in any order.
SPECIFICATION Spec
CONSTANTS
    Client = Client
    Server = Server
    w1 = w1
    w2 = w2
    Links = {l1}
    Calls = {w1, w2}
    Caller <- MCBothWrite
    Size <- MCOneByte
    ReadLens = {1}
    ISN <- MCISN
    SegmentSize = 1
    WindowSize = 2
    Closers = {Client, Server}
    Concurrent = FALSE
    Timeouts = {}
    MaxSyn = 1
    MaxLoss = 0
    MaxForce = 0
    MaxNet = 2
INVARIANTS
    BufferOutlivesSegments
    
    

    
CHECK_DEADLOCK FALSE
