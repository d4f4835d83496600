SPECIFICATION MCSpec
CONSTANTS
  Chunks <- Each
  KeyCap = 1
  Sizes = {1, 2}
  Cancels = TRUE
  Chainings = {TRUE, FALSE}
  MaxTyped = 2
  MaxDrops = 5
  MaxOutput = 1
  MaxResizes = 1
INVARIANT KeysExact
PROPERTY Reattaches NothingStolen KeepsUp
CHECK_DEADLOCK FALSE
