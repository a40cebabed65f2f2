SPECIFICATION Spec
CONSTANTS
  MaxLogins = 1
  MaxChannels = 1
  MaxFailures = 0
  Blank = {}
  Local = {}
INVARIANT ArrivalIsAdvised
CHECK_DEADLOCK FALSE
