\* An owner whose log ends with a dependency is flagged for deletion.
SPECIFICATION FairSpec
CONSTANTS
    c1 = c1
    c2 = c2
    t1 = t1
    t2 = t2
    Owner = {t1, t2}
    Collections <- OneCollection
    ExecuteEvery = 1
    Diffs = {1}
    DbThreads = 1
    Connected = TRUE
    BulkMayFail = FALSE
    CounterModulus = 256
    Pushed <- WritesPushed
    Deletable = {t1}
    UsedInCheck = FALSE
    MaxSlots = 2
    MaxEntries = 4
    MaxEpoch = 0
PROPERTIES
    DeletionCompletes
