SPECIFICATION Spec
CONSTANTS
    k1 = k1
    k2 = k2
    v1 = v1
    v2 = v2
    Table = {users}
    Key = {k1, k2}
    EmptyKey = EmptyKey
    Val = {v1}
    NoId = NoId
    NoRow = NoRow
    MaxTxn = 1
    MaxChanges = 3
    MaxRows = 2
    Preloaded = {}
    InitialRows <- OneRow
    LockFirst = FALSE
    FreshIds = FALSE
    Deletes = TRUE
    Modes = {"Exclusive"}
    Renames = TRUE
INVARIANT EndedLogSubmitted
PROPERTY RollbackSpares
