SPECIFICATION Spec
CONSTANTS
    Key = {1, 2, 3}
    None = None
    NoPage = NoPage
    ORDER = 2
    MaxInserts = 6
    MaxBreaks = 0
INVARIANT
    RangeAsPromised
