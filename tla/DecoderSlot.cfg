SPECIFICATION Spec
CONSTANTS
  Word = 8
  ExtField = 4
  MaximumChunkSize = 3
  MaximumMessageSize = 3
  MaximumTrackedChunkStreams = 3
  MaximumPartialMessages = 2
  InitialChunkSize = 2
  MaximumBufferedBytes = 5
  MaximumFragmentsPerMessage = 2
  PeerCsids = {2, 3, 4}
  PeerLengths = {0, 3, 4}
  PeerTypes = {1, 2, 20}
  PeerSizes = {0, 3}
PROPERTIES
  SingleChunkNeedsNoSlot
CHECK_DEADLOCK FALSE
