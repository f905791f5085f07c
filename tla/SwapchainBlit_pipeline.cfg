SPECIFICATION FairSpec
CONSTANTS
  NumImages = 3
  Outputs = 3
  RingSize = 4
  MaxSkips = 1
  Env <- AllEvents
INVARIANTS TypeOK RingSlotRetired SourceStable AcquireSemFree
PROPERTIES OverlayAdvances
