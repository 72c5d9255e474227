\* Two EndPoint threads at each end deliver the packets of a Write, which may time out.
SPECIFICATION Spec
CONSTANTS
    Client = Client
    Server = Server
    w1 = w1
    w2 = w2
    Links = {l1, l2}
    Calls = {w1}
    Caller <- MCClientWrites
    Size <- MCTwoBytes
    ReadLens = {}
    ISN <- MCISN
    SegmentSize = 1
    WindowSize = 2
    Closers = {}
    Concurrent = FALSE
    Timeouts = {"write"}
    MaxSyn = 1
    MaxLoss = 0
    MaxForce = 0
    MaxNet = 1
INVARIANTS
    ConfirmedReceived
    BufferOutlivesSegments
CHECK_DEADLOCK FALSE
