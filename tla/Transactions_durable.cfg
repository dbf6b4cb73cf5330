SPECIFICATION Spec
CONSTANTS
    k1 = k1
    k2 = k2
    v1 = v1
    v2 = v2
    Table = {users}
    Key = {k1, k2}
    EmptyKey = EmptyKey
    Val = {v1, v2}
    NoId = NoId
    NoRow = NoRow
    MaxTxn = 2
    MaxChanges = 3
    MaxRows = 2
    Preloaded = {users}
    InitialRows <- OneRow
    LockFirst = TRUE
    FreshIds = TRUE
    Deletes = FALSE
    Modes = {"Shared", "Exclusive"}
    Renames = TRUE
INVARIANT CommitDurable
