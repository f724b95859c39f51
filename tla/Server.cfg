\* One network thread, one client, three objects in each memory pool, under
\* fairness. The starter does not join the pools, so it can call stop() itself.
\* The system stops once stop() has returned.
SPECIFICATION FairSpec
CONSTANTS
    e1 = e1
    Endpoint = {e1}
    NetworkThreads = 1
    MaxObjects = 3
    MaxPendingDisconnects = 1
    JoinPools = FALSE
CHECK_DEADLOCK FALSE
INVARIANTS
    EndpointsOwned
    BuffersOwned
PROPERTIES
    QuietAfterJoin
    StopReturns
