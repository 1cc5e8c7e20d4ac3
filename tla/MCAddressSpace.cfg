SPECIFICATION Spec
VIEW MemoryView
CONSTANTS
    Radix = 2
    MaxWord = 4
    Limit = 3
    Perms <- MCPerms
    Sizes = {0, 1, 2, 3, 4}
    Values <- MCValues
INVARIANTS
    TypeOK
    NoOverlap
    Accounting
PROPERTY
    FlatSpec
