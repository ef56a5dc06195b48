CONSTANTS
  NumTargets = 3
  Warmup = 1
  Iteration = 2
  Faults = {"prepare", "transfer"}
SPECIFICATION FairSpec
INVARIANTS
  SourcesOutliveReads
  RoundsApart
  MeasuredWhole
  ReleasedOutsideCases
PROPERTIES
  RunEnds
