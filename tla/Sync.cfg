\* Four threads use a mutex, a condition variable and a semaphore of maximum 1.
SPECIFICATION Spec
CONSTANTS
    Threads = {t1, t2, t3, t4}
    NoThread = NoThread
    MaxCount = 1
    MaxDepth = 2
INVARIANTS
    LockedSelfRight
    PostUnblocks
PROPERTIES
    ImplementsRecursiveMutex
CHECK_DEADLOCK FALSE
