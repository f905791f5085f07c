SPECIFICATION Spec
CONSTANTS
  Sizes <- Rotations
  MaxSurfaces = 1
  MaxEdits = 1
  Env = {"noFramegen", "destroy", "slowReinit"}
INVARIANTS RenderSizeIsLoopSize
CHECK_DEADLOCK FALSE
