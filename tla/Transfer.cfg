\* One end writes in two calls that may overlap, the other reads: windows and acknowledgements.
SPECIFICATION Spec
CONSTANTS
    Client = Client
    Server = Server
    w1 = w1
    w2 = w2
    Links = {l1}
    Calls = {w1, w2}
    Caller <- MCClientWrites
    Size <- MCTwoThenOne
    ReadLens = {2}
    ISN <- MCISN
    SegmentSize = 1
    WindowSize = 2
    Closers = {}
    Concurrent = TRUE
    Timeouts = {}
    MaxSyn = 1
    MaxLoss = 0
    MaxForce = 0
    MaxNet = 1
INVARIANTS
    TypeOK
    WindowAccounting
    WriterKeepsUp
PROPERTIES
    ImplementsByteStream
CHECK_DEADLOCK FALSE
