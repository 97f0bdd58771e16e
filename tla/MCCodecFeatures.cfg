SPECIFICATION FeaturesSpec
CONSTANTS
  x = x
  y = y
  blake3 = blake3
  ContentType = {code}
  ANNOTATION = annotation
  NoSummary = none
  Letter <- MCLetter
  Bytes <- MCBytes
  TlvBytes <- MCTlvBytes
  Hash <- MCHash
  HashValue <- MCHashValue
  ZSize <- MCZSize
  HashSize = 1
  FrameHead = 1
  CompressionThreshold = 2
  MaxBlockBody = 2
  MaxPayload = 6
  Encoders = {e1}
  Decoders = {d1}
  Calls <- AllCalls
  Tlv <- MCTlv
  MaxBlocks = 2
  MaxEncodes = 1
  Damage = {"none", "cut", "trailing"}
  Stores = {"none", "shared", "other"}
INVARIANTS
  TypeOK
  FramesCarryBlocks
  DecodedIsSent
  IntactDecodes
  NoDoubleCompression
  AcceptedIsWhole
PROPERTIES
  ImplementsTransfer
  EncodeReturns
  DecodeReturns
CHECK_DEADLOCK FALSE
