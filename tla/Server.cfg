\* Two clients and three SYNs, of which one is redundant or two name no tunnel of their own any more;
\* two tunnels and two service threads; the services may be deregistered and the server shut down at
\* any time.
SPECIFICATION FairSpec
CONSTANTS
    Conns = {c1, c2}
    None = None
    MaxSyn = 3
    MaxTunnels = 2
    MaxStarts = 2
INVARIANTS
    PoolOutlivesServices
    MappedServed
PROPERTIES
    SynTaken
    ShutdownEnds
CHECK_DEADLOCK FALSE
