\* An approval whose run was refused by the pause, after resume.
SPECIFICATION SteadySpec
CONSTANTS
  Id = {a1}
  Args = {x}
  AutoArgs = {x}
  Message = {m}
  Flow = {f1}
  None = None
  MaxPending = 1
  MaxPerTurn = 1
  Expiry = 1
  MinReconcileAge = 1
  MaxClock = 2
  MaxEdits = 0
PROPERTIES RunAfterResume
