\* The driver itself may meet an error nobody has recorded.
SPECIFICATION Spec
CONSTANTS
  t1 = t1
  t2 = t2
  Threads <- TwoThreads
  NumberOfThreads = 2
  StockTasks = 1
  DriverErrors <- UnrecordedError
INVARIANT DriverErrorFailsQuery
