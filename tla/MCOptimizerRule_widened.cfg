SPECIFICATION Spec
CONSTANTS
    Null = Null
    KeyBits = 4
    BitsOf <- Bits
    MaxRelations = 3
    HalfBits = 2
    Queries <- WidenedQueries
    Catalogs <- ExactCatalogs
    MaxAggregates = 2
INVARIANTS
    RewriteIsExact
