SPECIFICATION Spec
CONSTANTS
    KeyBits = 4
    BitsOf <- Bits
    MaxRelations = 4
    HalfBits = 2
    Graphs <- AllGraphs
    TablesOf <- TablesFor
    QuestionsOf <- QuestionsFor
    Hash <- HashOf
    GroupRoom = 1
    SliceSteps <- Finer
INVARIANTS
    CountIsFlatJoin
    SlicesPartitionTheJoin
    ListIsFlatJoin
    SumsAreExact
    OuterCountIsExact
    CompletePlanExecutes
    RepresentationIsPrefixJoin
    TreeKeepsPaths
PROPERTIES
    CostMirrorsTheEngine
