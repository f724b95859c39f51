\* User code may call disconnect() again for a client whose disconnect is
\* pending already, as nothing in disconnect() forbids.
SPECIFICATION Spec
CONSTANTS
    e1 = e1
    b1 = b1
    b2 = b2
    Endpoint = {e1}
    Buffer = {b1, b2}
    MaxConcurrentThreads = 2
    RepeatDisconnect = TRUE
    MaxPendingDisconnects = 2
CHECK_DEADLOCK FALSE
INVARIANTS
    DisconnectFindsEndpoint
