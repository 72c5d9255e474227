\* One general thread, a SyncConfig with a dedicated thread and one without.
SPECIFICATION FairSpec
CONSTANTS
    General = {g1}
    Plain = {p}
    Dedicated = {d}
    Pausing = {p}
    PlainWork = 1
    DedicatedWork = 2
    None = None
INVARIANTS
    AcceptedKept
    TasksInScope
    
    PlainNotPosted
PROPERTIES
    SleeperWoken
    PoolFreed
CHECK_DEADLOCK FALSE
