SPECIFICATION Spec
CONSTANTS
  a = a
  b = b
  x = x
  Paths = {a, b}
  Data = {x}
  Dir = Dir
  None = None
  Size <- OneSize
  Seed <- SeedOne
  DefaultMode = 644
  Consoles = 1
  Jobs = FALSE
  SameInstant = FALSE
  Modes = {644}
  MaxOps = 1
  MaxFail = 1
  MaxBoots = 0
  MaxResets = 0
PROPERTY OnlyDeletedRemoved
