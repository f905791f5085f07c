SPECIFICATION Spec
CONSTANTS
  c1 = c1
  c2 = c2
  p1 = p1
  p2 = p2
  Pushers <- TwoPushers
  Contents <- TwoContents
  MaxCaptures = 3
  MaxInits = 2
  Depths = {2}
  Env <- AllEvents
INVARIANTS TypeOK RefsBalanced NothingOutlivesShutdown
PROPERTY CustodySpec
CHECK_DEADLOCK FALSE
