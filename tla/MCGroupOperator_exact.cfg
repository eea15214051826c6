\* Two workers, two buckets; a value of the first group may not convert, read
\* errors are fatal.
SPECIFICATION FairSpec
CONSTANTS
  t1 = t1
  t2 = t2
  Threads <- TwoThreads
  NumberOfThreads = 2
  StockTasks = 2
  DriverErrors <- AnyError
  MaxGroups = 3
  VectorSize = 2
  ReadErrors <- Fatal
  Unconvertibles <- FirstMayFail
INVARIANTS
  OneSource
  GroupsAreExact
  EveryGroupOnce
  DriverErrorFailsQuery
PROPERTIES
  ImplementsQueryAnswer
  QueryEnds
