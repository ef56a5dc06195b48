CONSTANTS
  Procs = {0, 1, 2, 3}
  Home <- ThreeHostHome
  Recorder = 0
  Benchmark = "p2p"
  SplitPairs = TRUE
  Pairs <- AwayFromRecorder
  Warmup = 1
  Iteration = 1
  Faults = {"prepare", "call", "record", "hlo", "barrier", "poll", "service"}
SPECIFICATION FairSpec
INVARIANTS
  TypeOK
  CasesDoNotOverlap
  CallsNeverStarve
  ResultsAreComplete
  PublishedRunIsWhole
  EveryCaseReportedOnce
PROPERTIES
  ImplementsCaseRounds
  NobodyStrandedOnHost
