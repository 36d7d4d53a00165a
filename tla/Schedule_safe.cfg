\* Two series where one may be active, and two lookers.
SPECIFICATION ScheduleSpec
CONSTANTS
  Series = {s1, s2}
  Reminder = {r1, r2}
  Content = {c1, c2}
  Looker = {l1, l2}
  None = None
  Every = 1
  MaxActive = 1
  MaxCatchUp = 3
  MaxLate = 1
  MaxClock = 2
SYMMETRY ScheduleSymmetry
CHECK_DEADLOCK FALSE
INVARIANTS OneOpenPerSeries OncePerFall EveryFallAccounted ActiveSeriesBounded
PROPERTIES OnlyRunningSeriesMake
