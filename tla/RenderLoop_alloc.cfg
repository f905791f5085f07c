SPECIFICATION FairSpec
CONSTANTS
  c1 = c1
  c2 = c2
  p1 = p1
  p2 = p2
  Pushers <- OnePusher
  Contents <- TwoContents
  MaxCaptures = 1
  MaxInits = 1
  Depths = {2}
  Env <- OnlyAllocFail
PROPERTIES InitReturns
CHECK_DEADLOCK FALSE
