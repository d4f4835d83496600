SPECIFICATION MCSpec
CONSTANTS
  InCap = 1
  OutCap = 2
  WriteFails = FALSE
  MaxOut = 3
  MaxMsgs = 3
  Hosts <- Asked
  Presses = {"key", "esc", "]"}
  EventCap = 1
  MaxPressed = 2
  MaxEvents = 2
  MaxWakes = 1
  Setups <- Typings
  SigCap = 2
INVARIANT OutputComplete InputExact EndsWhenAsked LinesRun
PROPERTY NoneIsStuck
CHECK_DEADLOCK FALSE
