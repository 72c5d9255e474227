\* Two threads wait for a semaphore that may count to two, and two posts come in a row.
SPECIFICATION Spec
CONSTANTS
    Threads = {t1, t2, t3}
    NoThread = NoThread
    MaxCount = 2
    MaxDepth = 2
INVARIANTS
    PostUnblocks
CHECK_DEADLOCK FALSE
