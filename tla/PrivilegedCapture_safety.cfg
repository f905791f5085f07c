SPECIFICATION FairSpec
CONSTANTS
  Sizes = {1, 2}
  MaxPasses = 2
  MaxWorkers = 3
  Env <- InTurn
INVARIANTS TypeOK OneFeeder CaptureFitsLoop
PROPERTIES StartServed
CHECK_DEADLOCK FALSE
