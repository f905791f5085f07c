SPECIFICATION FairSpec
CONSTANTS
  w1 = w1
  w2 = w2
  dark1 = dark1
  dark2 = dark2
  bright = bright
  NoWindow = NoWindow
  Windows <- TwoWindows
  Sizes = {1}
  Contents <- AllContents
  Dark <- DarkContents
  GateLimit = 2
  Env <- AllEvents
INVARIANTS TypeOK SwapchainOnWindow
PROPERTY OverlayComesUp
CHECK_DEADLOCK FALSE
