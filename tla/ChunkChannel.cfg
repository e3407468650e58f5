SPECIFICATION FairSpec
CONSTANTS
  Word = 8
  ExtField = 4
  MaximumChunkSize = 4
  MaximumMessageSize = 4
  MaximumTrackedChunkStreams = 5
  MaximumPartialMessages = 1
  InitialChunkSize = 2
  Messages <- MCMessages
  ChunkSizes = {1, 4}
  ControlTimes = {6}
  ControlLength = 3
  MaxPackets = 3
INVARIANTS
  TypeOK
  StaysAligned
  RoundTrip
  DeliveredOnceInOrder
PROPERTIES
  ImplementsChannel
CHECK_DEADLOCK FALSE
