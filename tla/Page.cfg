SPECIFICATION MCSpec
CONSTANTS
  MaxLines = 2
  MaxMarks = 2
  Ids = {"x", "y"}
  WidgetNames = {"pw", "ow"}
  PageWidgets = {"pw"}
  Boxes = {0, 1}
  Screens = {1, 2}
  ShipLimit = 3
  Mounts = {1, 2}
  PicIds = {1, 2}
  PicLimit = 1
  MaxPics = 2
  NotifyGap = 2
  MaxNotes = 3
  Fonts = {"f", "g"}
  FontSizes = {0, 3}
  ZoomMin = 1
  ZoomMax = 3
  DefSize = 2
  PartLimit = 1
  SoundLimit = 2
  SoundIds = {"s", "t"}
  MaxLate = 2
  MaxDrops = 2
  Names = {"w"}
  Sizes = {1, 2}
  MaxTyped = 2
  MaxRuns = 2
  MaxCtrlC = 1
INVARIANT KeysReachChild NothingOutlives ShownIsSent
PROPERTY CommandsReturn EventsToAsker PlacementsKept
CHECK_DEADLOCK FALSE
