SPECIFICATION Spec
CONSTANTS
  x = x
  y = y
  blake3 = blake3
  ContentType = {code}
  ANNOTATION = annotation
  NoSummary = none
  Letter <- MCLetter
  Bytes <- MCBytes
  TlvBytes <- MCTlvBytes
  Hash <- MCHash
  HashValue <- MCHashValue
  ZSize <- MCZSize
  HashSize = 1
  FrameHead = 1
  CompressionThreshold = 2
  MaxBlockBody = 2
  MaxPayload = 6
  Encoders = {e1}
  Decoders = {d1}
  Calls <- PriorityCalls
  Tlv <- MCTlv
  MaxBlocks = 3
  MaxEncodes = 1
  Damage = {"none"}
  Stores = {"shared"}
INVARIANT PriorityTargetsContent
CHECK_DEADLOCK FALSE
