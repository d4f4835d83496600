SPECIFICATION FairSpec
CONSTANTS
  a = a
  b = b
  x = x
  Paths = {a, b}
  Data = {x}
  Dir = Dir
  None = None
  Size <- OneSize
  Seed <- SeedOne
  DefaultMode = 644
  Consoles = 2
  Jobs = TRUE
  SameInstant = FALSE
  Modes = {644, 755}
  MaxOps = 3
  MaxFail = 1
  MaxBoots = 1
  MaxResets = 1
INVARIANT SnapshotTruthful SyncComplete
PROPERTY MovedIsKept SyncReturns
