CONSTANTS
  Listings <- ColumnOnly
  Requests <- ScanOnly
  IndexMax = 7
SPECIFICATION Spec
INVARIANTS
  ReportedNeighborsAreLinked
CHECK_DEADLOCK FALSE
