SPECIFICATION Spec
CONSTANTS
  Sizes <- OneSize
  MaxSurfaces = 1
  MaxEdits = 2
  Env = {}
INVARIANT LastChangeApplied
CHECK_DEADLOCK FALSE
