\* Two devices; the second updates its own info.
CONSTANTS
  Devices = {1, 2}
  MaxTime = 3
  Revokes = {}
  Updates <- SecondUpdatesItself
  Leavers = {}
  Restarters = {}
SPECIFICATION SpecH
INVARIANT SensitiveStaysHome
CHECK_DEADLOCK FALSE
