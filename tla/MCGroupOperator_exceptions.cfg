\* Reading the inputs may throw something the operator recovers from, and the
\* last of the groups holds a value its column's type cannot take.
SPECIFICATION Spec
CONSTANTS
  t1 = t1
  t2 = t2
  Threads <- TwoThreads
  NumberOfThreads = 2
  StockTasks = 1
  DriverErrors <- NoErrors
  MaxGroups = 3
  VectorSize = 2
  ReadErrors <- Recoverable
  Unconvertibles <- LastFails
INVARIANT OneSource
