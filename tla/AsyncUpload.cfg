\* Two uploads, one client, and two agents that may overlap, with a crash at any moment.
SPECIFICATION FairSpec
CONSTANTS
    MaxRequests = 2
    Clients = {c1}
    MaxAgents = 2
    None = None
INVARIANTS
    CompleteMeansStored
    StoredOnce
    CancelStopsItsOwn
PROPERTIES
    RequestServed
CHECK_DEADLOCK FALSE
