SPECIFICATION Spec
CONSTANTS
    Graphs <- AllGraphs
    TablesOf <- TablesFor
    AsksOf <- AsksFor
    Values <- Keys
    Shard <- ShardBits
    Slot <- SlotBits
    RowFloor = 3
    FirstCapacity = 8
    Empty <- Least
INVARIANTS
    ReducedExtremeIsExact
    SurvivorsAreTheSemiJoin
    TeamIsJoined
