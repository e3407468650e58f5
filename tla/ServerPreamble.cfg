SPECIFICATION Spec
CONSTANTS
  NoWire = NoWire
  GenerationMax = 1
  MaxStreams = 1
  MaxPendingRequests = 2
  StreamIdMax = 2
  MaxObjectEncoding = "Amf0"
  SendOnBwDone = TRUE
  PeerEncodings = {"Amf0"}
  MaxRequests = 2
INVARIANTS
  HeadersRestOnSentOnes
CHECK_DEADLOCK FALSE
