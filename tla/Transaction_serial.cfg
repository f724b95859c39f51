\* One database thread, two owners that depend on each other, one of which is
\* deleted and whose object is used again.
SPECIFICATION Spec
CONSTANTS
    c1 = c1
    c2 = c2
    t1 = t1
    t2 = t2
    Owner = {t1, t2}
    Collections <- OneCollection
    ExecuteEvery = 2
    Diffs = {1}
    DbThreads = 1
    Connected = TRUE
    BulkMayFail = FALSE
    CounterModulus = 256
    Pushed <- AllPushed
    Deletable = {t1}
    UsedInCheck = FALSE
    MaxSlots = 3
    MaxEntries = 3
    MaxEpoch = 1
INVARIANTS
    TypeOK
    SubmittedOnce
    DependencyRespected
    DeletedWhenDone
    OnlyLastStoreDangles
PROPERTIES
    ImplementsLog
