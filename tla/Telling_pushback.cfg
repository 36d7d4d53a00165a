\* The same, against what the documentation says of a reminder pushed back.
SPECIFICATION TellingSpec
CONSTANTS
  Series = {s1}
  Reminder = {r1, r2}
  Content = {c1}
  Looker = {n}
  None = None
  Every = 2
  MaxActive = 1
  MaxCatchUp = 9
  MaxLate = 1
  MaxClock = 3
  Notifier = n
  MaxNotifications = 1
  MaxMishaps = 1
SYMMETRY TellingSymmetry
CHECK_DEADLOCK FALSE
INVARIANTS ToldAtItsTime
