\* Two flows that propose at the same time, a row and a set of arguments more than may wait.
SPECIFICATION ProposingSpec
CONSTANTS
  Id = {a1, a2, a3}
  Args = {x, y, z}
  AutoArgs = {x}
  Message = {m}
  Flow = {f1, f2}
  None = None
  MaxPending = 2
  MaxPerTurn = 2
  Expiry = 1
  MinReconcileAge = 1
  MaxClock = 1
  MaxEdits = 0
SYMMETRY Symmetry
INVARIANTS WithinLimits
