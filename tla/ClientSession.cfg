SPECIFICATION Spec
CONSTANTS
  NoWire = NoWire
  GenerationMax = 2
  MaxStreams = 2
  MaxPendingRequests = 2
  WireIds = {1, 2}
  MaxTransactions = 5
INVARIANTS
  StreamsConsistent
  CreationsHaveTransactions
  ClientHandlesStayInvalid
  NoStreamLeaked
PROPERTIES
  SilentAfterDeletion
CHECK_DEADLOCK FALSE
