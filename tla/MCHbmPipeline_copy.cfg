CONSTANTS
  NIters = 5
  NumBanks = 2
  Kinds <- CopyKernel
SPECIFICATION FairSpec
INVARIANTS
  BankNotShared
  TouchSeesItsChunk
  AllChunksMoved
  PipelineIsFull
PROPERTIES
  ImplementsStreams
  KernelEnds
