SPECIFICATION SharingSpec
CONSTANTS
  x = x
  y = y
  blake3 = blake3
  ContentType = {code, doc}
  ANNOTATION = annotation
  NoSummary = none
  Letter <- MCLetter
  Bytes <- MCBytes
  TlvBytes <- MCTlvBytes
  Hash <- MCHash
  HashValue <- MCHashValue
  ZSize <- MCZSize
  HashSize = 1
  FrameHead = 1
  CompressionThreshold = 2
  MaxBlockBody = 2
  MaxPayload = 6
  Encoders = {e1, e2}
  Decoders = {d1}
  Calls <- SharingCalls
  Tlv <- MCTlv
  MaxBlocks = 2
  MaxEncodes = 2
  Damage = {"none"}
  Stores = {"shared"}
INVARIANTS
  IntactDecodes
  InlineOnce
SYMMETRY EncoderSymmetry
CHECK_DEADLOCK FALSE
