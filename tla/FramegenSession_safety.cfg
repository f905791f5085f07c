SPECIFICATION SessionSpec
CONSTANTS
  low = low
  high = high
  RingSize = 2
  Passes = 2
  MaxFrames = 6
  Env <- AllEvents
  NoConfig = NoConfig
  Configs <- TwoConfigs
  MaxSessions = 3
  LibraryEnv <- AllFailures
INVARIANTS SessionTypeOK OwnSettings WorkHasContext FlowMatchesInputs CountedInputsStable
PROPERTY SubmittedPresentReturns
CHECK_DEADLOCK FALSE
