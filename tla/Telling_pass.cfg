\* More due than a pass may show one by one, a looker beside it, a failing screen, one mishap.
SPECIFICATION FairTellingSpec
CONSTANTS
  Series = {s1}
  Reminder = {r1, r2}
  Content = {c1}
  Looker = {n, l}
  None = None
  Every = 1
  MaxActive = 1
  MaxCatchUp = 1
  MaxLate = 0
  MaxClock = 1
  Notifier = n
  MaxNotifications = 1
  MaxMishaps = 1
CHECK_DEADLOCK FALSE
INVARIANTS NeverUnshown OnceUnlessMishap NoFlood
PROPERTIES DueIsTold DueIsMade
