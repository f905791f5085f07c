SPECIFICATION Spec
CONSTANTS
  Windows = {w1}
  Settings <- MCSettings
  Default <- MCDefault
  MaxEvents = 4
INVARIANTS TypeOK GeneratesOwnSettings NoTerminate
PROPERTIES FileApplied
