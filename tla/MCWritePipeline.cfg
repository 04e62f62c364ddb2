SPECIFICATION FairSpec
CONSTANTS
  Users = {a, b}
  Docs = {x}
  MaxPendingWrites = 2
  MaxWrites = 3
  MaxFaults = 3
INVARIANTS
  TypeOK
  PipelineIsFront
  ResponsesMatch
  CallbacksMatch
  DocsExplained
PROPERTIES
  ImplementsWriteQueue
  QueueDrains
CHECK_DEADLOCK FALSE
