SPECIFICATION Spec
CONSTANTS
    Client = {c1, c2}
    Val = {v1}
    Blank = Blank
    Torn = Torn
    None = None
    PoolSize = 2
    MaxPages = 3
INVARIANTS
    PoolConsistent
    PinnedStay
    FlushedSurvives
PROPERTIES
    EvictsLeastRecent
    ImplementsPageStore
