CONSTANTS
  NumDevices = 2
  NumRuns = 2
  Batches = {TRUE}
  Faults = {"ssh", "server", "client"}
SPECIFICATION FairSpec
INVARIANTS
  NoServerLeft
  MetricsAreSound
PROPERTIES
  SuiteEnds
