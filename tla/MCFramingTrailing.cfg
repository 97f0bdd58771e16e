SPECIFICATION Spec
CONSTANTS
  Base = 8
  MaxVarintBytes = 3
  Word = 128
  Magic <- MCMagic
  VersionMajor = 1
  VersionMinor = 0
  HeaderFlags = {0, 2}
  Frames <- MCFrames
  Memory = 63
  MaxFrames = 2
  Changes = {"longer"}
INVARIANTS
  TrailingReported
CHECK_DEADLOCK FALSE
