\* Two workers, three buckets, two stock tasks; what the driver may meet and
\* the executor has not recorded is fatal.
SPECIFICATION FairSpec
CONSTANTS
  t1 = t1
  t2 = t2
  Threads <- TwoThreads
  NumberOfThreads = 3
  StockTasks = 2
  DriverErrors <- FatalError
INVARIANTS
  TypeOK
  OneAnswer
  TotalIsExact
  OneDriver
  NoNestedFrames
PROPERTIES
  FallbackIsFinal
  OnlySeriousErrorsSurface
  ImplementsQueryAnswer
  QueryEnds
