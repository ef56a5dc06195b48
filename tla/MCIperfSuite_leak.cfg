CONSTANTS
  NumDevices = 1
  NumRuns = 1
  Batches = {FALSE}
  Faults = {}
SPECIFICATION Spec
INVARIANT NoServerLeft
