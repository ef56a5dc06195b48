CONSTANTS
  Procs = {0, 1, 2, 3}
  Home <- ThreeHostHome
  Recorder = 0
  Benchmark = "raw"
  SplitPairs = TRUE
  Pairs <- AwayFromRecorder
  Warmup = 1
  Iteration = 2
  Faults = {}
SPECIFICATION Spec
INVARIANT SplitOwnerIsSource
