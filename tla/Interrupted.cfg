\* Every wait may time out, ForceClose is called once at any moment, and both ends close.
SPECIFICATION Spec
CONSTANTS
    Client = Client
    Server = Server
    w1 = w1
    w2 = w2
    Links = {l1}
    Calls = {w1}
    Caller <- MCClientWrites
    Size <- MCOneByte
    ReadLens = {1}
    ISN <- MCISN
    SegmentSize = 1
    WindowSize = 1
    Closers = {Client, Server}
    Concurrent = FALSE
    Timeouts = {"open", "accept", "read", "write", "close"}
    MaxSyn = 1
    MaxLoss = 0
    MaxForce = 1
    MaxNet = 2
INVARIANTS
    
    ConfirmedReceived
    HandshakeQuiet
CHECK_DEADLOCK FALSE
