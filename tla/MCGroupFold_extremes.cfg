\* The same queries: extremes with the keys in sibling branches.
SPECIFICATION Spec
CONSTANTS
  Attributes <- Payloads
  Slots <- FourLevels
  Records <- Arena
  KeySets <- AllKeySets
  Aggregates <- EveryAggregate
  Parts <- TwoParts
  Lowest <- Least
  Highest <- Greatest
INVARIANT
  ExtremesAreExact
