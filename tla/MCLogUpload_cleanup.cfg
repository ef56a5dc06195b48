CONSTANTS
  NumTestcases = 2
  Logs <- ThreeLogs
  InPlace <- TeeLog
  Whole = 1
  Filters <- AllOrNotFirst
  MaxUploads = 2
  Faults = {"cp", "find"}
SPECIFICATION Spec
INVARIANTS
  NothingLost
  SuccessIsComplete
