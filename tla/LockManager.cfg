SPECIFICATION Spec
CONSTANTS
    TxnId = {t1, t2, t3}
    Resource = {r1, r2}
INVARIANT NoConflict
PROPERTY ImplementsLockTable
