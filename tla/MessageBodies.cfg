SPECIFICATION BodySpec
CHECK_DEADLOCK FALSE
CONSTANTS
  NodeSize = 2
  PairSize = 3
  MAX_DEPTH = 2
  MAX_COLLECTION_LEN = 3
  MAX_REFERENCES = 3
  MAX_STRING_LEN = 3
  MAX_BYTEARRAY_LEN = 2
  NestedClasses <- MCNested
  StatusClasses <- MCStatus
  BeanNames <- MCBean
  AMF0_MAX_STRING_LEN = 2
  U16_MAX = 1
  Shapes3 <- MCShapes3
  Shapes0 <- MCShapes0
  Roots3 <- MCRoots3
  Roots0 <- MCRoots0
  Embeddable <- MCEmbeddable
  MaxObjects = 2
  MaxRoots = 2
  MaxEmbedded = 2
  MaxConversions = 1
  MaxCutObjects = 1
  Limits <- MCLimits
  Deep = 4
  AvcRecord = 2
  HevcRecord = 3
  Av1Record = 2
  ModExEscape = 4
  NanoOffset = 3
  TagHeaders <- MCTagHeaders
  ModExs <- MCModExs
  TracksOf <- MCTracksOf
  MaxModEx = 1
  MaxTracks = 2
  ByteSize = 8
  Graphic = {4, 5, 6, 7}
  FourCcs <- MCFourCcs
  OwnMessages <- MCOwnMessages
  Declarations <- MCDeclarations
  MaxDeclared = 2
INVARIANTS
  
  TruncationYieldsPrefix
  TreeIsUnfolding
  ConversionSettles
  FramingRemoved
  LossNotInvented
  ClassificationAgrees
  MessageSurvives
  MetadataRecovered
