\* Two network threads, three objects in each memory pool, with and without
\* join_pools and a database, under fairness. The system stops once stop() has
\* returned.
SPECIFICATION FairSpec
CONSTANTS
    NetworkThreads = 2
    MaxObjects = 3
CHECK_DEADLOCK FALSE
INVARIANTS
    TypeOK
    StopMeansStopped
    MemoryIsOwned
    NothingLeaks
PROPERTIES
    ChainsGoOn
    ImplementsLifecycle
