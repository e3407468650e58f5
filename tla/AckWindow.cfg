SPECIFICATION FairSpec
CONSTANTS
  Word = 16
  SelfWindow = 4
  Windows = {0, 2, 5}
  MaxMessage = 3
  MaxAhead = 7
  MaxInFlight = 2
INVARIANTS
  AcknowledgedEachWindow
  AcksAreTotals
PROPERTIES
  SenderNeverStuck
CHECK_DEADLOCK FALSE
