\* Every choice of keys over three levels, two parts.
SPECIFICATION Spec
CONSTANTS
  Attributes <- Payloads
  Slots <- FourLevels
  Records <- Arena
  KeySets <- AllKeySets
  Aggregates <- EveryAggregate
  Parts <- TwoParts
  Lowest <- Least
  Highest <- Greatest
INVARIANTS
  CountsAndSumsAreExact
  ExtremesExactOnOnePath
