SPECIFICATION FairSpec
CONSTANTS
  c1 = c1
  c2 = c2
  p1 = p1
  p2 = p2
  Pushers <- OnePusher
  Contents <- TwoContents
  MaxCaptures = 4
  MaxInits = 2
  Depths = {2, 3}
  Env <- Attached
INVARIANTS CurrentSlotIsNewest
PROPERTIES OverlayInOrder ShutdownCompletes InterpolatedReachesScreen
CHECK_DEADLOCK FALSE
