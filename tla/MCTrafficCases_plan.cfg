CONSTANTS
  Listings <- AnyListing
  Requests <- AnyRequest
  IndexMax = 7
SPECIFICATION Spec
INVARIANTS
  TypeOK
  EveryLinkOnce
  RaggedWindowsTile
  ExchangeMatchesMatrix
  BisectionIsTheCut
PROPERTIES
  TopologyIsExact
CHECK_DEADLOCK FALSE
