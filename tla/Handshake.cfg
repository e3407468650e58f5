SPECIFICATION FairSpec
CONSTANTS
  PacketSize = 4
  MaxData = 3
INVARIANTS
  NothingLost
  CompletionIsMutual
PROPERTIES
  HandshakeCompletes
CHECK_DEADLOCK FALSE
