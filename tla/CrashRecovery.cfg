SPECIFICATION CrashSpec
CONSTANTS
    k1 = k1
    k2 = k2
    v1 = v1
    v2 = v2
    Table = {users}
    Key = {k1, k2}
    EmptyKey = EmptyKey
    Val = {v1, v2}
    NoId = NoId
    NoRow = NoRow
    MaxTxn = 2
    MaxChanges = 4
    MaxRows = 2
    Preloaded = {users}
    InitialRows <- OneRow
    LockFirst = TRUE
    FreshIds = TRUE
    Deletes = TRUE
    Modes = {"Exclusive"}
    Renames = FALSE
    Reread <- Plain
    MaxRestarts = 1
INVARIANTS
    RecoverRebuilds
    RecoverCommittedOnly
    RecoverIdempotent
