\* Two devices, three things to tell and room for one message an hour.
SPECIFICATION PushSpec
CONSTANTS
  Device = {d1, d2}
  Item = {i1, i2, i3}
  None = None
  MaxSubscriptions = 2
  MaxFailures = 1
  MaxPerHour = 1
  MaxRequestsPerPass = 3
  Hour = 1
  MaxClock = 2
  MaxAsked = 3
  MaxMishaps = 1
SYMMETRY PushSymmetry
CHECK_DEADLOCK FALSE
INVARIANTS ToldOnce RateHeld
