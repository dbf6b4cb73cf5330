SPECIFICATION ScanSpec
CONSTANTS
    small = small
    tricky = tricky
    broken = broken
    huge = huge
    Row = {small, tricky, broken, huge}
    Fields <- SmallFields
    Columns <- SmallColumns
    Size <- Sizes
    PageSize = 15
    DirStart = 1
    SlotSize = 2
    Wrap = 16
    Beyond <- SmallBeyond
    Snapshots = {{}, {0}, {1}}
    InvalidPage = 100
INVARIANTS
    LayoutIntact
    ReadsBack
    ScanComplete
