SPECIFICATION MCSpec
CONSTANTS
  Files = {"a.bcp", "b.bcp"}
  Foreign <- ForeignFiles
  Manifests <- MCManifests
  Sources <- MCSources
  NotText = {binary}
  TooLarge = {huge}
  DecodeArgs <- AllArgs
  MaxShown = 2
  MaxEncodes = 2
  MaxCommands = 4
  Unparsed = Unparsed
  NotAName = NotAName
  None = None
  Missing = Missing
  hello = hello
  binary = binary
  huge = huge
  note = note
INVARIANTS
  TypeOK
  ShownAsWritten
  MetaOnOwnBlock
  RefusedForDuplicatesOnly
  SuccessMeansWhole
  FailureLeavesFiles
CHECK_DEADLOCK FALSE
