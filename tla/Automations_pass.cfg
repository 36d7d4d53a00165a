\* Two automations that fall together and at every tick, a reminder, a day of two greetings and room for one,
\* two requests of the owner and one mishap.
SPECIFICATION SmallSpec
CONSTANTS
  Flow = {n, h}
  Notifier = n
  Automation = {a1, a2}
  Reminder = {r1}
  Unasked = {morning, away}
  None = None
  DailyCap = 1
  MaxNotifications = 1
  DayLength = 4
  MaxClock = 2
  MaxMishaps = 1
  Every = 1
  MaxAutomations = 2
  MaxRequests = 2
SYMMETRY AutoSymmetry
CHECK_DEADLOCK FALSE
INVARIANTS NoNagging
PROPERTIES OneRunPerFall FairTurns
