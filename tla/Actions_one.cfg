\* One action, two flows that may both show, approve and run it, one row edited, any flow crashing.
SPECIFICATION FairSpec
CONSTANTS
  Id = {a1}
  Args = {x, y}
  AutoArgs = {x}
  Message = {m}
  Flow = {f1, f2}
  None = None
  MaxPending = 1
  MaxPerTurn = 1
  Expiry = 1
  MinReconcileAge = 1
  MaxClock = 1
  MaxEdits = 1
INVARIANTS AtMostOnce OnlyWhatWasShown LookedInTime
PROPERTIES DecisionsStand GateSpec RunsEnd OffersEnd
