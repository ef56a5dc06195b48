CONSTANTS
  NumHosts = 4
  NumModes = 2
  Emitters = {0, 1}
  Setups <- SmallSetups
SPECIFICATION FairSpec
INVARIANTS
  PassMeansAllRanksSucceeded
  PassMeansAllLogs
  FailureKeepsLogs
  FreshChildren
  NobodyForgotten
PROPERTIES
  ModesDoNotOverlap
  LauncherEnds
  AllModesPass
