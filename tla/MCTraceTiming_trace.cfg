CONSTANTS
  Configs <- SmallConfigs
  Iterations = 3
  Durations = {1, 3}
  Foreign = {"input"}
SPECIFICATION Spec
INVARIANT DurationsAreTheirOwn
