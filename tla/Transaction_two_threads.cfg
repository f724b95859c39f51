\* Two database threads and an owner that is deleted.
CHECK_DEADLOCK FALSE
SPECIFICATION Spec
CONSTANTS
    c1 = c1
    c2 = c2
    t1 = t1
    t2 = t2
    Owner = {t1}
    Collections <- OneCollection
    ExecuteEvery = 1
    Diffs = {1}
    DbThreads = 2
    Connected = TRUE
    BulkMayFail = FALSE
    CounterModulus = 256
    Pushed <- OperationsPushed
    Deletable = {t1}
    UsedInCheck = FALSE
    MaxSlots = 2
    MaxEntries = 2
    MaxEpoch = 0
INVARIANTS
    DeletedWhenDone
