\* Two owners and three logs with all kinds of entries that wait for one
\* another, a time test, a counter that wraps, and an owner flagged for
\* deletion, under fairness.
SPECIFICATION FairSpec
CONSTANTS
    c1 = c1
    c2 = c2
    t1 = t1
    t2 = t2
    Owner = {t1, t2}
    Collections <- TwoCollections
    ExecuteEvery = 2
    Diffs = {1}
    DbThreads = 1
    Connected = TRUE
    BulkMayFail = FALSE
    CounterModulus = 2
    Pushed <- MixedPushed
    Deletable = {t1}
    UsedInCheck = FALSE
    MaxSlots = 2
    MaxEntries = 3
    MaxEpoch = 0
INVARIANTS
    Frontier
    NoneForgotten
    PendingCallablesExact
PROPERTIES
    OperationsComplete
    DeletionCompletesBehindOperations
