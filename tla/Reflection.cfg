SPECIFICATION Spec
CONSTANTS
    Structs <- MCStructs
    Name = {"a", "s"}
    Numbers = {0, 1, 2, 10}
    Int32Limit = 4
    MaxElements = 3
INVARIANTS
    TypeOK
    Loaded
CHECK_DEADLOCK FALSE
