\* Three slices on three threads, or one call over two probe buckets.
SPECIFICATION FairSpec
CONSTANTS
  Tuples <- SixTuples
  KeyHash <- KeyHashes
  OtherHash <- OtherHashes
  Inputs <- SomeInputs
  Slices = 3
  ProbeSlices = 2
  Factors <- TwoFactors
  SecondParts <- OneSplit
  Limits <- SmallLimits
INVARIANTS
  CountIsExact
  LimitIsExact
  StoppedForCause
PROPERTY
  EveryCallEnds
