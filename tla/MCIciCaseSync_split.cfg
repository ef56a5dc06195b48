CONSTANTS
  Procs = {0, 1, 2, 3}
  Home <- ThreeHostHome
  Recorder = 0
  Benchmark = "p2p-rdma"
  SplitPairs = TRUE
  Pairs <- AwayFromRecorder
  Warmup = 1
  Iteration = 1
  Faults = {}
SPECIFICATION FairSpec
PROPERTY
  RunCompletes
