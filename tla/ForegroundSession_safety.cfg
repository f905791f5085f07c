SPECIFICATION FairSpec
CONSTANTS
  Sizes <- OneSize
  MaxSurfaces = 2
  MaxEdits = 2
  Env <- AllButSlow
INVARIANTS TypeOK PassCoversRequests FeedsLiveLoop NothingAfterDestroy
PROPERTIES ReinitCompletes
CHECK_DEADLOCK FALSE
