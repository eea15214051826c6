SPECIFICATION Spec
CONSTANTS
    t1 = t1
    t2 = t2
    counted = counted
    plain = plain
    NoQuery = NoQuery
    Threads <- TwoThreads
    Queries = {counted, plain}
    Sharing = {counted}
    LimitOf <- Limits
    Sizes = {2}
    EntrySize = 1
    Pointer = 1
    FirstChunk = 1
    ChunkCeiling = 2
    MaxDoublings = 2
    MaxEntries = 3
    MaxHeld = 9
SYMMETRY Symmetric
INVARIANTS
    TypeOK
    AccountIsExact
    BudgetIsKept
    NoStaleFlag
PROPERTIES
    AbandonedStopsGrowing
