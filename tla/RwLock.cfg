\* Two writers and three readers, and a Destroy at any moment.
SPECIFICATION FairSpec
CONSTANTS
    Threads = {w1, w2, r1, r2, r3}
    Writers = {w1, w2}
    NoThread = NoThread
INVARIANTS
    Exclusion
    LockAsserts

    
    
CHECK_DEADLOCK FALSE
