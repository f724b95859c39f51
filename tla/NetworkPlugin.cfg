\* Two network threads, two endpoints, three packets, each client disconnected
\* at most once per session, under the fairness of the fiber pool. No symmetry:
\* it is not sound for liveness.
SPECIFICATION FairSpec
CONSTANTS
    e1 = e1
    e2 = e2
    b1 = b1
    b2 = b2
    b3 = b3
    Endpoint = {e1, e2}
    Buffer = {b1, b2, b3}
    MaxConcurrentThreads = 2
    RepeatDisconnect = FALSE
    MaxPendingDisconnects = 2
INVARIANTS
    TypeOK
    DisconnectFindsEndpoint
    LocalMapsAgree
    NoStrandedInput
    RegistriesAgree
    SessionsAlternate
    ErasedDataIsEmpty
PROPERTIES
    ImplementsSessions
    PacketsArrive
    DisconnectsComplete
