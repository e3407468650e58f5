SPECIFICATION Spec
CONSTANTS
  Payloads = {p, q}
  MaxCachedPayloads = 1
  MaxDescriptors = 2
  MinCapacity = 1
  MaxPush = 2
  MaxLen = 4
INVARIANTS
  SegmentsWellFormed
  CacheBounded
  ReadsTheRange
