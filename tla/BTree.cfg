SPECIFICATION Spec
CONSTANTS
    Key = {1, 2, 3, 4, 5}
    None = None
    NoPage = NoPage
    ORDER = 2
    MaxInserts = 6
    MaxBreaks = 1
INVARIANTS
    WellFormed
    SearchFinds
    RangeMissesOnlyTies
    NothingInvented
