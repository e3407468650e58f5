SPECIFICATION Spec
CONSTANTS
  NoWire = NoWire
  GenerationMax = 2
  MaxStreams = 2
  MaxPendingRequests = 2
  StreamIdMax = 3
  MaxObjectEncoding = "Amf3"
  SendOnBwDone = TRUE
  MaxRequests = 3
  PeerEncodings = {"Amf0"}
INVARIANTS
  ServerTypeOK
  TablesAgree
  RequestsConcernLiveStreams
  DeletedHandlesStayInvalid
  ConnectAnswerAfterPreamble
PROPERTIES
  EndsWithEvent
CHECK_DEADLOCK FALSE
