SPECIFICATION Spec
CONSTANTS
  Base = 8
  MaxVarintBytes = 3
  Word = 128
  None = None
  ByteWidth = 16
  ShortWidth = 32
  Replacement = 15
  Untyped <- MCUntyped
  Blocks <- MCBlocks
  UnknownFields <- MCUnknownFields
  Changes = {"none", "moved", "extended", "repeated", "padded", "cut", "widened", "retyped", "noise"}
  Noise <- MCNoise
INVARIANTS
  TypeOK
  ForwardCompatible
  CutShows
  Stable
CHECK_DEADLOCK FALSE
