\* Three requests on two threads, one of which the server refuses, with and
\* without a connection, which breaks at most once; ids enough for each request,
\* for one of an older document and for those whose answer is lost. The system
\* stops when nothing is left to do.
SPECIFICATION FairSpec
CONSTANTS
    r1 = r1
    r2 = r2
    r3 = r3
    i1 = i1
    i2 = i2
    i3 = i3
    i4 = i4
    i5 = i5
    Request = {r1, r2, r3}
    ByReference = {r2}
    Refused = {r3}
    Id = {i1, i2, i3, i4, i5}
    Threads = 2
    Older = {i1}
    MaxOutages = 1
CHECK_DEADLOCK FALSE
INVARIANTS
    ToldIdNamesDocument
    DocumentsCounted
    DocumentOwned
PROPERTIES
    RequestsComplete
