\* Two applications, an EndPoint thread and TS_Shutdown share two tunnels.
SPECIFICATION FairSpec
CONSTANTS
    Tunnels = {v1, v2}
    Callers = {c1, c2}
    Links = {l1}
    MaxTries = 1
INVARIANTS
    NoUseAfterDelete
    RefCountIsHolders
    StopAccounts
PROPERTIES
    ShutdownReturns
CHECK_DEADLOCK FALSE
