SPECIFICATION Spec
CONSTANTS
    Null = Null
    KeyBits = 4
    BitsOf <- Bits
    MaxRelations = 3
    HalfBits = 2
    Queries <- ExactQueries
    Catalogs <- ExactCatalogs
    MaxAggregates = 2
INVARIANTS
    RewriteIsExact
PROPERTIES
    NullGuardIsForUncommittedRows
