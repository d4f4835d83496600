SPECIFICATION MCSpec
CONSTANTS
  Chunks <- Plain
  KeyCap = 1
  Sizes = {1}
  Cancels = FALSE
  Chainings = {FALSE}
  MaxTyped = 1
  MaxDrops = 2
  MaxOutput = 0
  MaxResizes = 0
PROPERTY KeysWait
CHECK_DEADLOCK FALSE
