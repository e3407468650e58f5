SPECIFICATION Spec
CONSTANTS
  NoWire = NoWire
  GenerationMax = 1
  MaxStreams = 1
  MaxPendingRequests = 2
  StreamIdMax = 2
  MaxObjectEncoding = "Amf3"
  SendOnBwDone = TRUE
  PeerEncodings = {"Amf0", "Amf3"}
  MaxRequests = 3
INVARIANTS
  Amf3OnlyIfUsed
CHECK_DEADLOCK FALSE
